---- MODULE Spec2Model ----
(***************************************************************************)
(* Model of the two wait-free ring queues of marcusspangenberg/            *)
(* waitfreequeue: waitfree::mpsc_queue<T, S> (mpsc_queue.h) and            *)
(* waitfree::spsc_queue<T, S> (spsc_queue.h), for T = uint64_t as in the   *)
(* tests.  Every atomic access and every access to a slot is one step, so  *)
(* that all interleavings of the threads are explored.                     *)
(***************************************************************************)
EXTENDS Integers, Sequences, FiniteSets, TLC

\* ---------------------------------------------------------------- bounds
\* log2 of the template parameter S (S must be a power of two).
LogS == 1
\* Number of producer threads of the MPSC workload.
NumProducers == 2
\* Total number of pushes a workload makes on one queue.
MaxPushes == 4

\* Width in bits of the unsigned counters head_ and tail_ (uint_fast32_t in the
\* source; kept small here so that the counters wrap within a run).
CounterBits == 2

S == 2 ^ LogS
mod_value_ == S - 1
Producers == 1 .. NumProducers

\* The width of size_t (64 in the source; kept small here so that every
\* capacity of that width can be enumerated).
SizeTBits == 7

\* a & b on unsigned words, bit by bit.
RECURSIVE BitAnd(_, _)
BitAnd(a, b) ==
    IF a = 0 \/ b = 0
    THEN 0
    ELSE (a % 2) * (b % 2) + 2 * BitAnd(a \div 2, b \div 2)

\* is_power_of_two(size): return (size & (size - 1)) == 0; in size_t
\* arithmetic, where 0 - 1 wraps to the all-ones word.
is_power_of_two(size) == BitAnd(size, (size - 1) % (2 ^ SizeTBits)) = 0

\* x & mod_value_ for a mask of the form 2^k - 1.
BitAndMask(x, mask) == x % (mask + 1)

\* uint64_t make_value(thread_id, iteration, element_id): the three arguments
\* packed into disjoint bit fields of one word, kept here as the three fields.
make_value(thread_id, iteration, element_id) == <<thread_id, iteration, element_id>>

\* The thread_id and element_id fields of a value.
thread_id_of(v) == v[1]
element_id_of(v) == v[3]

\* A zeroed uint64_t (memset(alloc_result, 0, adjusted_size)).
Zero == make_value(0, 0, 0)

Range(s) == {s[i] : i \in 1 .. Len(s)}

IsPrefix(s, t) == Len(s) <= Len(t) /\ \A i \in 1 .. Len(s) : s[i] = t[i]

VARIABLES
    \* ---- mpsc_queue members
    head_,        \* std::atomic<uint_fast32_t> head_
    tail_,        \* std::atomic<uint_fast32_t> tail_
    elements_,    \* element* elements_: slot -> [value_, is_used_]
    \* ---- producer threads inside mpsc_queue::push
    ppc,          \* position of each producer in push
    ptail,        \* the local `tail` of push
    pitem,        \* the argument `item` of push
    pcount,       \* pushes each producer has started
    aborted,      \* assert() failed: the process is gone
    \* ---- the consumer thread inside mpsc_queue::pop / empty
    cpc,          \* position of the consumer
    chead,        \* the local `head` of pop / empty
    item,         \* the out argument `item` of pop
    ret,          \* what the last pop returned ("none" while none has)
    emptyRet,     \* what the last empty() returned
    \* ---- history of the MPSC execution
    tickets,      \* values in the order their pushes drew tail tickets
    published,    \* values in the order of their is_used_ release stores
    returned,     \* values whose push has returned
    popped,       \* values returned by successful pops, in order
    popAvail,     \* at the start of the current/last pop: some returned push is unpopped
    popHeadPub,   \* at the start of the current/last pop: the oldest unpopped ticket is published
    popQuiet,     \* no push was in progress at the start of the last pop, none started since
    objects,      \* slot -> constructor runs minus destructor runs on its value_
    pfull,        \* per producer: is_used_ of its slot was 1 when it drew its ticket
    \* ---- spsc_queue members
    size_,        \* std::atomic<size_t> size_
    s_head_,      \* size_t head_ (consumer only)
    s_tail_,      \* size_t tail_ (producer only)
    s_elements_,  \* T* elements_: slot -> value
    \* ---- the producer thread inside spsc_queue::push
    spc,          \* position of the producer in push
    stail,        \* the local `tail` of push
    sitem,        \* the argument `item` of push
    s_aborted,    \* assert(oldValue < S) failed
    \* ---- the consumer thread inside spsc_queue::pop / size
    scpc,         \* position of the consumer
    sloaded,      \* the value pop loaded from size_
    shead,        \* the local `head` of pop
    s_item,       \* the out argument `item` of pop
    s_ret,        \* what the last pop returned ("none" while none has)
    sizeRet,      \* what the consumer's last size() returned
    \* ---- history of the SPSC execution
    s_pushed,     \* values in the order the producer pushed them
    s_returned,   \* number of pushes that have returned
    s_popped,     \* values returned by successful pops, in order
    s_popAvail,   \* at the start of the current/last pop: a returned push is unpopped
    s_popQuiet,   \* no push was in progress at the start of the last pop, none started since
    owed,         \* successful pops the consumer's last size() read still promises
    failOwed,     \* the value of owed when a pop last returned false
    s_objects,    \* slot -> constructor runs minus destructor runs on it
    s_held,       \* slots holding a constructed value not yet transferred out
    \* ---- the element type and the lifetime of the two queue objects
    T,            \* the traits of the template parameter T
    destroyed,    \* ~mpsc_queue() has run
    s_destroyed,  \* ~spsc_queue() has run
    capacity,     \* the template argument S handed to the constructor's guard
    guard,        \* static_assert(is_power_of_two(S)): pending, passed or failed
    \* ---- the C++ memory model's view of the MPSC slots
    events,       \* number of memory events so far (event ids are 0 .. events)
    views,        \* thread -> the events that happen before its next step
    msgs,         \* slot -> the stores to is_used_ in modification order
    coh,          \* thread -> slot -> the latest store to is_used_ it has read or made
    accesses,     \* slot -> the last write of value_ and the reads since
    raced,        \* two conflicting accesses of a value_ were unordered
    \* ---- what the consumer's last empty() lets it expect of its next pop
    predicted,    \* "nonempty" / "empty" since the last pop, "void" once a push
                  \* published into the head slot after empty() returned true
    \* ---- a second thread calling pop on the MPSC queue (a misuse)
    c2pc,         \* where the second consumer is inside pop
    c2head,       \* its local `head`
    c2item,       \* its out argument `item`
    c2ret,        \* what its last pop returned
    overlapped,   \* two pops have been in progress at the same time
    \* ---- the SPSC producer's own reading of size()
    sizeSeen,     \* what the producer's last size() returned (-1 once used)
    \* ---- the allocation of the MPSC ring
    header,       \* which of the two MPSC headers is compiled
    alignof_T,    \* alignof(T)
    sizeof_T,     \* sizeof(T)
    alloc_result  \* the address aligned_alloc returned (-1 while not tracked)

mvars == <<head_, tail_, elements_, ppc, ptail, pitem, pcount, aborted,
           cpc, chead, item, ret, emptyRet,
           tickets, published, returned, popped, popAvail, popHeadPub, popQuiet,
           objects, pfull>>

svars == <<size_, s_head_, s_tail_, s_elements_, spc, stail, sitem, s_aborted,
           scpc, sloaded, shead, s_item, s_ret, sizeRet,
           s_pushed, s_returned, s_popped, s_popAvail, s_popQuiet, owed, failOwed,
           s_objects, s_held>>

ovars == <<events, views, msgs, coh, accesses, raced>>

tvars == <<T, destroyed, s_destroyed, capacity, guard>>

gvars == <<predicted>>

rvars == <<c2pc, c2head, c2item, c2ret, overlapped>>

pvars == <<sizeSeen>>

avars == <<header, alignof_T, sizeof_T, alloc_result>>

xvars == <<rvars, pvars, avars>>

lvars == <<tvars, ovars, gvars, xvars>>

vars == <<mvars, svars, lvars>>

\* ------------------------------------------------------------ mpsc_queue

\* mpsc_queue(): head_(0), tail_(0), memset(alloc_result, 0, adjusted_size)
mpsc_queue ==
    /\ head_ = 0
    /\ tail_ = 0
    /\ elements_ = [i \in 0 .. S - 1 |-> [value_ |-> Zero, is_used_ |-> 0]]

\* A counter that sticks at its largest value instead of wrapping.
fetch_add_saturating(counter, n) ==
    IF counter + n > 2 ^ CounterBits - 1 THEN 2 ^ CounterBits - 1 ELSE counter + n

\* std::atomic<uint_fast32_t>::fetch_add / fetch_sub: the new stored value.
fetch_add(counter, n) == (counter + n) % (2 ^ CounterBits)
fetch_sub(counter, n) == (counter - n) % (2 ^ CounterBits)

\* push reading tail_ with a load and leaving the counter as it is.
push_reserve_load(p) ==
    /\ ~aborted
    /\ ppc[p] = "idle"
    /\ ptail' = [ptail EXCEPT ![p] = BitAndMask(tail_, mod_value_)]
    /\ tail_' = tail_
    /\ pitem' = [pitem EXCEPT ![p] = make_value(p, 0, pcount[p])]
    /\ pcount' = [pcount EXCEPT ![p] = @ + 1]
    /\ ppc' = [ppc EXCEPT ![p] = "construct"]
    /\ tickets' = Append(tickets, make_value(p, 0, pcount[p]))
    /\ popQuiet' = FALSE
    /\ pfull' = [pfull EXCEPT ![p] = (elements_[BitAndMask(tail_, mod_value_)].is_used_ = 1)]
    /\ UNCHANGED <<head_, elements_, aborted, cpc, chead, item, ret, emptyRet,
                   published, returned, popped, popAvail, popHeadPub,
                   objects>>

\* push drawing its slot from the incremented counter (++tail_) instead.
push_reserve_pre(p) ==
    /\ ~aborted
    /\ ppc[p] = "idle"
    /\ ptail' = [ptail EXCEPT ![p] = BitAndMask(fetch_add(tail_, 1), mod_value_)]
    /\ tail_' = fetch_add(tail_, 1)
    /\ pitem' = [pitem EXCEPT ![p] = make_value(p, 0, pcount[p])]
    /\ pcount' = [pcount EXCEPT ![p] = @ + 1]
    /\ ppc' = [ppc EXCEPT ![p] = "construct"]
    /\ tickets' = Append(tickets, make_value(p, 0, pcount[p]))
    /\ popQuiet' = FALSE
    /\ pfull' = [pfull EXCEPT ![p] = (elements_[BitAndMask(fetch_add(tail_, 1), mod_value_)].is_used_ = 1)]
    /\ UNCHANGED <<head_, elements_, aborted, cpc, chead, item, ret, emptyRet,
                   published, returned, popped, popAvail, popHeadPub,
                   objects>>

\* push: const auto tail = tail_.fetch_add(1, relaxed) & mod_value_;
push_reserve(p) ==
    /\ ~aborted
    /\ ppc[p] = "idle"
    /\ ptail' = [ptail EXCEPT ![p] = BitAndMask(tail_, mod_value_)]
    /\ tail_' = fetch_add(tail_, 1)
    /\ pitem' = [pitem EXCEPT ![p] = make_value(p, 0, pcount[p])]
    /\ pcount' = [pcount EXCEPT ![p] = @ + 1]
    /\ ppc' = [ppc EXCEPT ![p] = "construct"]
    /\ tickets' = Append(tickets, make_value(p, 0, pcount[p]))
    /\ popQuiet' = FALSE
    /\ pfull' = [pfull EXCEPT ![p] = (elements_[BitAndMask(tail_, mod_value_)].is_used_ = 1)]
    /\ UNCHANGED <<head_, elements_, aborted, cpc, chead, item, ret, emptyRet,
                   published, returned, popped, popAvail, popHeadPub,
                   objects>>

\* push that goes to its assertion without having written the slot.
push_construct_nothing(p) ==
    /\ ~aborted
    /\ ppc[p] = "construct"
    /\ elements_' = elements_
    /\ ppc' = [ppc EXCEPT ![p] = "assert"]
    /\ objects' = [objects EXCEPT ![ptail[p]] = @ + 1]
    /\ UNCHANGED <<head_, tail_, ptail, pitem, pcount, aborted, cpc, chead, item,
                   ret, emptyRet, tickets, published, returned, popped, popAvail,
                   popHeadPub, popQuiet,
                   pfull>>

\* push: new (&elements_[tail].value_) T(std::forward<U>(item)...);
push_construct(p) ==
    /\ ~aborted
    /\ ppc[p] = "construct"
    /\ elements_' = [elements_ EXCEPT ![ptail[p]].value_ = pitem[p]]
    /\ ppc' = [ppc EXCEPT ![p] = "assert"]
    /\ objects' = [objects EXCEPT ![ptail[p]] = @ + 1]
    /\ UNCHANGED <<head_, tail_, ptail, pitem, pcount, aborted, cpc, chead, item,
                   ret, emptyRet, tickets, published, returned, popped, popAvail,
                   popHeadPub, popQuiet,
                   pfull>>

\* push: assert(elements_[tail].is_used_.load(acquire) == 0);
push_assert(p) ==
    /\ ~aborted
    /\ ppc[p] = "assert"
    /\ IF elements_[ptail[p]].is_used_ = 0
       THEN /\ ppc' = [ppc EXCEPT ![p] = "publish"]
            /\ UNCHANGED aborted
       ELSE /\ aborted' = TRUE
            /\ UNCHANGED ppc
    /\ UNCHANGED <<head_, tail_, elements_, ptail, pitem, pcount, cpc, chead, item,
                   ret, emptyRet, tickets, published, returned, popped, popAvail,
                   popHeadPub, popQuiet,
                   objects, pfull>>

\* push: elements_[tail].is_used_.store(1, release); and return
push_publish(p) ==
    /\ ~aborted
    /\ ppc[p] = "publish"
    /\ elements_' = [elements_ EXCEPT ![ptail[p]].is_used_ = 1]
    /\ ppc' = [ppc EXCEPT ![p] = "idle"]
    /\ published' = Append(published, pitem[p])
    /\ returned' = returned \cup {pitem[p]}
    /\ UNCHANGED <<head_, tail_, ptail, pitem, pcount, aborted, cpc, chead, item,
                   ret, emptyRet, tickets, popped, popAvail, popHeadPub, popQuiet,
                   objects, pfull>>

\* pop drawing its slot from the incremented counter (++head_) instead.
pop_reserve_pre ==
    /\ ~aborted
    /\ cpc = "idle"
    /\ chead' = BitAndMask(fetch_add(head_, 1), mod_value_)
    /\ head_' = fetch_add(head_, 1)
    /\ cpc' = "probe"
    /\ ret' = "none"
    /\ popAvail' = (returned \ Range(popped) # {})
    /\ popHeadPub' = /\ Len(tickets) > Len(popped)
                     /\ tickets[Len(popped) + 1] \in Range(published)
    /\ popQuiet' = (\A p \in Producers : ppc[p] = "idle")
    /\ UNCHANGED <<tail_, elements_, ppc, ptail, pitem, pcount, aborted, item,
                   emptyRet, tickets, published, returned, popped,
                   objects, pfull>>

\* pop: const auto head = head_.fetch_add(1, relaxed) & mod_value_;
pop_reserve ==
    /\ ~aborted
    /\ cpc = "idle"
    /\ chead' = BitAndMask(head_, mod_value_)
    /\ head_' = fetch_add(head_, 1)
    /\ cpc' = "probe"
    /\ ret' = "none"
    /\ popAvail' = (returned \ Range(popped) # {})
    /\ popHeadPub' = /\ Len(tickets) > Len(popped)
                     /\ tickets[Len(popped) + 1] \in Range(published)
    /\ popQuiet' = (\A p \in Producers : ppc[p] = "idle")
    /\ UNCHANGED <<tail_, elements_, ppc, ptail, pitem, pcount, aborted, item,
                   emptyRet, tickets, published, returned, popped,
                   objects, pfull>>

\* pop that waits for the producer of its slot instead of returning false.
pop_probe_waiting ==
    /\ ~aborted
    /\ cpc = "probe"
    /\ elements_[chead].is_used_ = 1
    /\ cpc' = "transfer"
    /\ UNCHANGED <<head_, tail_, elements_, ppc, ptail, pitem, pcount, aborted,
                   chead, item, ret, emptyRet, tickets, published, returned, popped,
                   popAvail, popHeadPub, popQuiet,
                   objects, pfull>>

\* pop that takes the slot without looking at is_used_.
pop_probe_blind ==
    /\ ~aborted
    /\ cpc = "probe"
    /\ cpc' = "transfer"
    /\ UNCHANGED <<head_, tail_, elements_, ppc, ptail, pitem, pcount, aborted,
                   chead, item, ret, emptyRet, tickets, published, returned, popped,
                   popAvail, popHeadPub, popQuiet,
                   objects, pfull>>

\* pop: if (elements_[head].is_used_.load(acquire) == 0)
pop_probe ==
    /\ ~aborted
    /\ cpc = "probe"
    /\ cpc' = IF elements_[chead].is_used_ = 0 THEN "rollback" ELSE "transfer"
    /\ UNCHANGED <<head_, tail_, elements_, ppc, ptail, pitem, pcount, aborted,
                   chead, item, ret, emptyRet, tickets, published, returned, popped,
                   popAvail, popHeadPub, popQuiet,
                   objects, pfull>>

\* pop that returns false without giving its head reservation back.
pop_rollback_kept ==
    /\ ~aborted
    /\ cpc = "rollback"
    /\ head_' = head_
    /\ cpc' = "idle"
    /\ ret' = "false"
    /\ UNCHANGED <<tail_, elements_, ppc, ptail, pitem, pcount, aborted, chead,
                   item, emptyRet, tickets, published, returned, popped, popAvail,
                   popHeadPub, popQuiet,
                   objects, pfull>>

\* pop: head_.fetch_sub(1, relaxed); return false;
pop_rollback ==
    /\ ~aborted
    /\ cpc = "rollback"
    /\ head_' = fetch_sub(head_, 1)
    /\ cpc' = "idle"
    /\ ret' = "false"
    /\ UNCHANGED <<tail_, elements_, ppc, ptail, pitem, pcount, aborted, chead,
                   item, emptyRet, tickets, published, returned, popped, popAvail,
                   popHeadPub, popQuiet,
                   objects, pfull>>

\* pop that copies the value out and never runs the destructor of value_.
pop_transfer_no_destructor ==
    /\ ~aborted
    /\ cpc = "transfer"
    /\ item' = elements_[chead].value_
    /\ cpc' = "release"
    /\ objects' = objects
    /\ UNCHANGED <<head_, tail_, elements_, ppc, ptail, pitem, pcount, aborted,
                   chead, ret, emptyRet, tickets, published, returned, popped,
                   popAvail, popHeadPub, popQuiet,
                   pfull>>

\* pop: if constexpr (is_move_assignable_v<T>) item = std::move(value_);
\*      else { item = value_; if constexpr (!is_trivially_destructible_v<T>) value_.~T(); }
\* The slot is the consumer's alone here, so the branch is one step; a moved-from
\* or destroyed value_ is not read again before the next placement new.
pop_transfer ==
    /\ ~aborted
    /\ cpc = "transfer"
    /\ item' = elements_[chead].value_
    /\ cpc' = "release"
    /\ objects' = IF T.is_move_assignable \/ T.is_trivially_destructible
                  THEN objects
                  ELSE [objects EXCEPT ![chead] = @ - 1]
    /\ UNCHANGED <<head_, tail_, elements_, ppc, ptail, pitem, pcount, aborted,
                   chead, ret, emptyRet, tickets, published, returned, popped,
                   popAvail, popHeadPub, popQuiet,
                   pfull>>

\* pop that returns true without marking the slot free.
pop_release_kept ==
    /\ ~aborted
    /\ cpc = "release"
    /\ elements_' = elements_
    /\ cpc' = "idle"
    /\ ret' = "true"
    /\ popped' = Append(popped, item)
    /\ UNCHANGED <<head_, tail_, ppc, ptail, pitem, pcount, aborted, chead, item,
                   emptyRet, tickets, published, returned, popAvail, popHeadPub,
                   popQuiet,
                   objects, pfull>>

\* pop: elements_[head].is_used_.store(0, relaxed); return true;
pop_release ==
    /\ ~aborted
    /\ cpc = "release"
    /\ elements_' = [elements_ EXCEPT ![chead].is_used_ = 0]
    /\ cpc' = "idle"
    /\ ret' = "true"
    /\ popped' = Append(popped, item)
    /\ UNCHANGED <<head_, tail_, ppc, ptail, pitem, pcount, aborted, chead, item,
                   emptyRet, tickets, published, returned, popAvail, popHeadPub,
                   popQuiet,
                   objects, pfull>>

\* empty: const auto head = head_.load(relaxed) & mod_value_;
empty_load ==
    /\ ~aborted
    /\ cpc = "idle"
    /\ chead' = BitAndMask(head_, mod_value_)
    /\ cpc' = "empty"
    /\ UNCHANGED <<head_, tail_, elements_, ppc, ptail, pitem, pcount, aborted,
                   item, ret, emptyRet, tickets, published, returned, popped,
                   popAvail, popHeadPub, popQuiet,
                   objects, pfull>>

\* empty that reports the flag itself (is_used_ != 0).
empty_probe_inverted ==
    /\ ~aborted
    /\ cpc = "empty"
    /\ emptyRet' = (elements_[chead].is_used_ # 0)
    /\ cpc' = "idle"
    /\ UNCHANGED <<head_, tail_, elements_, ppc, ptail, pitem, pcount, aborted,
                   chead, item, ret, tickets, published, returned, popped,
                   popAvail, popHeadPub, popQuiet,
                   objects, pfull>>

\* empty: return elements_[head].is_used_.load(acquire) == 0;
empty_probe ==
    /\ ~aborted
    /\ cpc = "empty"
    /\ emptyRet' = (elements_[chead].is_used_ = 0)
    /\ cpc' = "idle"
    /\ UNCHANGED <<head_, tail_, elements_, ppc, ptail, pitem, pcount, aborted,
                   chead, item, ret, tickets, published, returned, popped,
                   popAvail, popHeadPub, popQuiet,
                   objects, pfull>>

\* ~mpsc_queue() running the destructor on every slot, whatever its is_used_.
mpsc_queue_destroy_every_slot ==
    /\ ~destroyed
    /\ objects' = IF T.is_trivially_destructible
                  THEN objects
                  ELSE [i \in 0 .. S - 1 |-> objects[i] - 1]
    /\ destroyed' = TRUE
    /\ UNCHANGED <<head_, tail_, elements_, ppc, ptail, pitem, pcount, aborted,
                   cpc, chead, item, ret, emptyRet, tickets, published, returned,
                   popped, popAvail, popHeadPub, popQuiet, pfull>>
    /\ UNCHANGED <<T, s_destroyed, capacity, guard, ovars, gvars, xvars>>

\* ~mpsc_queue(): if constexpr (!is_trivially_destructible_v<T>) every slot with
\* is_used_ != 0 has the destructor of its value_ run; then free(elements_).
mpsc_queue_destroy ==
    /\ ~destroyed
    /\ objects' = IF T.is_trivially_destructible
                  THEN objects
                  ELSE [i \in 0 .. S - 1 |->
                           IF elements_[i].is_used_ = 0 THEN objects[i]
                                                         ELSE objects[i] - 1]
    /\ destroyed' = TRUE
    /\ UNCHANGED <<head_, tail_, elements_, ppc, ptail, pitem, pcount, aborted,
                   cpc, chead, item, ret, emptyRet, tickets, published, returned,
                   popped, popAvail, popHeadPub, popQuiet, pfull>>
    /\ UNCHANGED <<T, s_destroyed, capacity, guard, ovars, gvars, xvars>>

\* ------------------------------------------------------- the MPSC workload

\* A workload dimensioned on the counters alone: a push may start whenever
\* tail - head is below S, a pop in progress already counted as done.
CounterRule == (tail_ - head_) % (2 ^ CounterBits) < S

\* The dimensioning rule: a push starts only while fewer than S elements are
\* pushed (or being pushed) and not yet completely popped.
DimensioningRule == Len(tickets) - Len(popped) < S

\* A producer thread calls push (the workload is bounded by MaxPushes).
Push(p) ==
    /\ Len(tickets) < MaxPushes
    /\ DimensioningRule
    /\ push_reserve(p)

\* ------------------------------------------------------------ spsc_queue

\* Width in bits of size_ (size_t in the source; kept small here).
SizeBits == 3

\* spsc_queue(): size_(0), head_(0), tail_(0), memset(alloc_result, 0, adjusted_size)
spsc_queue ==
    /\ size_ = 0
    /\ s_head_ = 0
    /\ s_tail_ = 0
    /\ s_elements_ = [i \in 0 .. S - 1 |-> Zero]

\* std::atomic<size_t>::fetch_add / fetch_sub: the new stored value.
size_fetch_add(counter, n) == (counter + n) % (2 ^ SizeBits)
size_fetch_sub(counter, n) == (counter - n) % (2 ^ SizeBits)

\* push that forgets to advance tail_.
spsc_push_tail_stuck ==
    /\ ~s_aborted
    /\ spc = "idle"
    /\ stail' = s_tail_
    /\ s_tail_' = s_tail_
    /\ sitem' = make_value(0, 0, Len(s_pushed) + 1)
    /\ spc' = "construct"
    /\ s_pushed' = Append(s_pushed, make_value(0, 0, Len(s_pushed) + 1))
    /\ s_popQuiet' = FALSE
    /\ UNCHANGED <<size_, s_head_, s_elements_, s_aborted, scpc, sloaded, shead,
                   s_item, s_ret, sizeRet, s_returned, s_popped, s_popAvail, owed,
                   failOwed,
                   s_objects, s_held>>

\* push: const auto tail = tail_; tail_ = (tail_ + 1) & mod_value_;
spsc_push_tail ==
    /\ ~s_aborted
    /\ spc = "idle"
    /\ stail' = s_tail_
    /\ s_tail_' = BitAndMask(s_tail_ + 1, mod_value_)
    /\ sitem' = make_value(0, 0, Len(s_pushed) + 1)
    /\ spc' = "construct"
    /\ s_pushed' = Append(s_pushed, make_value(0, 0, Len(s_pushed) + 1))
    /\ s_popQuiet' = FALSE
    /\ UNCHANGED <<size_, s_head_, s_elements_, s_aborted, scpc, sloaded, shead,
                   s_item, s_ret, sizeRet, s_returned, s_popped, s_popAvail, owed,
                   failOwed,
                   s_objects, s_held>>

\* push: new (&elements_[tail]) T(std::forward<U>(item)...);
spsc_push_construct ==
    /\ ~s_aborted
    /\ spc = "construct"
    /\ s_elements_' = [s_elements_ EXCEPT ![stail] = sitem]
    /\ spc' = "count"
    /\ s_objects' = [s_objects EXCEPT ![stail] = @ + 1]
    /\ s_held' = s_held \cup {stail}
    /\ UNCHANGED <<size_, s_head_, s_tail_, stail, sitem, s_aborted, scpc, sloaded,
                   shead, s_item, s_ret, sizeRet, s_pushed, s_returned, s_popped,
                   s_popAvail, s_popQuiet, owed, failOwed>>

\* push that forgets to count its element in size_.
spsc_push_count_none ==
    /\ ~s_aborted
    /\ spc = "count"
    /\ size_' = size_
    /\ IF size_ < S
       THEN /\ spc' = "idle"
            /\ s_returned' = s_returned + 1
            /\ UNCHANGED s_aborted
       ELSE /\ s_aborted' = TRUE
            /\ UNCHANGED <<spc, s_returned>>
    /\ UNCHANGED <<s_head_, s_tail_, s_elements_, stail, sitem, scpc, sloaded,
                   shead, s_item, s_ret, sizeRet, s_pushed, s_popped, s_popAvail,
                   s_popQuiet, owed, failOwed,
                   s_objects, s_held>>

\* push: oldValue = size_.fetch_add(1, acq_rel); assert(oldValue < S); and return
spsc_push_count ==
    /\ ~s_aborted
    /\ spc = "count"
    /\ size_' = size_fetch_add(size_, 1)
    /\ IF size_ < S
       THEN /\ spc' = "idle"
            /\ s_returned' = s_returned + 1
            /\ UNCHANGED s_aborted
       ELSE /\ s_aborted' = TRUE
            /\ UNCHANGED <<spc, s_returned>>
    /\ UNCHANGED <<s_head_, s_tail_, s_elements_, stail, sitem, scpc, sloaded,
                   shead, s_item, s_ret, sizeRet, s_pushed, s_popped, s_popAvail,
                   s_popQuiet, owed, failOwed,
                   s_objects, s_held>>

\* pop that treats a single remaining element as empty (size_ <= 1).
spsc_pop_load_off_by_one ==
    /\ ~s_aborted
    /\ scpc = "idle"
    /\ sloaded' = size_
    /\ s_popAvail' = (s_returned > Len(s_popped))
    /\ s_popQuiet' = (spc = "idle")
    /\ IF size_ <= 1
       THEN /\ scpc' = "idle"
            /\ s_ret' = "false"
            /\ failOwed' = owed
       ELSE /\ scpc' = "take"
            /\ s_ret' = "none"
            /\ UNCHANGED failOwed
    /\ UNCHANGED <<size_, s_head_, s_tail_, s_elements_, spc, stail, sitem,
                   s_aborted, shead, s_item, sizeRet, s_pushed, s_returned,
                   s_popped, owed,
                   s_objects, s_held>>

\* pop: if (size_.load(acquire) == 0) { return false; }
spsc_pop_load ==
    /\ ~s_aborted
    /\ scpc = "idle"
    /\ sloaded' = size_
    /\ s_popAvail' = (s_returned > Len(s_popped))
    /\ s_popQuiet' = (spc = "idle")
    /\ IF size_ = 0
       THEN /\ scpc' = "idle"
            /\ s_ret' = "false"
            /\ failOwed' = owed
       ELSE /\ scpc' = "take"
            /\ s_ret' = "none"
            /\ UNCHANGED failOwed
    /\ UNCHANGED <<size_, s_head_, s_tail_, s_elements_, spc, stail, sitem,
                   s_aborted, shead, s_item, sizeRet, s_pushed, s_returned,
                   s_popped, owed,
                   s_objects, s_held>>

\* pop that forgets to advance head_.
spsc_pop_head_stuck ==
    /\ ~s_aborted
    /\ scpc = "take"
    /\ shead' = s_head_
    /\ s_head_' = s_head_
    /\ scpc' = "transfer"
    /\ UNCHANGED <<size_, s_tail_, s_elements_, spc, stail, sitem, s_aborted,
                   sloaded, s_item, s_ret, sizeRet, s_pushed, s_returned, s_popped,
                   s_popAvail, s_popQuiet, owed, failOwed,
                   s_objects, s_held>>

\* pop: const auto head = head_; head_ = (head_ + 1) & mod_value_;
spsc_pop_head ==
    /\ ~s_aborted
    /\ scpc = "take"
    /\ shead' = s_head_
    /\ s_head_' = BitAndMask(s_head_ + 1, mod_value_)
    /\ scpc' = "transfer"
    /\ UNCHANGED <<size_, s_tail_, s_elements_, spc, stail, sitem, s_aborted,
                   sloaded, s_item, s_ret, sizeRet, s_pushed, s_returned, s_popped,
                   s_popAvail, s_popQuiet, owed, failOwed,
                   s_objects, s_held>>

\* pop: if constexpr (is_move_assignable_v<T>) item = std::move(elements_[head]);
\*      else { item = elements_[head]; if constexpr (!is_trivially_destructible_v<T>) elements_[head].~T(); }
spsc_pop_transfer ==
    /\ ~s_aborted
    /\ scpc = "transfer"
    /\ s_item' = s_elements_[shead]
    /\ scpc' = "count"
    /\ s_objects' = IF T.is_move_assignable \/ T.is_trivially_destructible
                    THEN s_objects
                    ELSE [s_objects EXCEPT ![shead] = @ - 1]
    /\ s_held' = s_held \ {shead}
    /\ UNCHANGED <<size_, s_head_, s_tail_, s_elements_, spc, stail, sitem,
                   s_aborted, sloaded, shead, s_ret, sizeRet, s_pushed, s_returned,
                   s_popped, s_popAvail, s_popQuiet, owed, failOwed>>

\* pop that takes two off size_ for one element.
spsc_pop_count_twice ==
    /\ ~s_aborted
    /\ scpc = "count"
    /\ size_' = size_fetch_sub(size_, 2)
    /\ scpc' = "idle"
    /\ s_ret' = "true"
    /\ s_popped' = Append(s_popped, s_item)
    /\ owed' = IF owed > 0 THEN owed - 1 ELSE 0
    /\ UNCHANGED <<s_head_, s_tail_, s_elements_, spc, stail, sitem, s_aborted,
                   sloaded, shead, s_item, sizeRet, s_pushed, s_returned,
                   s_popAvail, s_popQuiet, failOwed,
                   s_objects, s_held>>

\* pop: size_.fetch_sub(1, acq_rel); return true;
spsc_pop_count ==
    /\ ~s_aborted
    /\ scpc = "count"
    /\ size_' = size_fetch_sub(size_, 1)
    /\ scpc' = "idle"
    /\ s_ret' = "true"
    /\ s_popped' = Append(s_popped, s_item)
    /\ owed' = IF owed > 0 THEN owed - 1 ELSE 0
    /\ UNCHANGED <<s_head_, s_tail_, s_elements_, spc, stail, sitem, s_aborted,
                   sloaded, shead, s_item, sizeRet, s_pushed, s_returned,
                   s_popAvail, s_popQuiet, failOwed,
                   s_objects, s_held>>

\* size(): return size_.load(acquire);
size == size_

\* The consumer thread calls size() between two pops.
spsc_size ==
    /\ ~s_aborted
    /\ scpc = "idle"
    /\ sizeRet' = size
    /\ owed' = size
    /\ UNCHANGED <<size_, s_head_, s_tail_, s_elements_, spc, stail, sitem,
                   s_aborted, scpc, sloaded, shead, s_item, s_ret, s_pushed,
                   s_returned, s_popped, s_popAvail, s_popQuiet, failOwed,
                   s_objects, s_held>>

\* ~spsc_queue(): if constexpr (!is_trivially_destructible_v<T>) the size_ slots
\* (head_ + i) & mod_value_, i < size_, have their destructor run; then free.
spsc_queue_destroy ==
    /\ ~s_destroyed
    /\ s_objects' = IF T.is_trivially_destructible
                    THEN s_objects
                    ELSE [j \in 0 .. S - 1 |->
                             s_objects[j] - Cardinality({i \in 0 .. size_ - 1 :
                                 BitAndMask(s_head_ + i, mod_value_) = j})]
    /\ s_destroyed' = TRUE
    /\ UNCHANGED <<size_, s_head_, s_tail_, s_elements_, spc, stail, sitem,
                   s_aborted, scpc, sloaded, shead, s_item, s_ret, sizeRet,
                   s_pushed, s_returned, s_popped, s_popAvail, s_popQuiet, owed,
                   failOwed, s_held>>
    /\ UNCHANGED <<T, destroyed, capacity, guard, ovars, gvars, xvars>>

\* ------------------------------------------------------- the SPSC workload

\* The producer pushes only while fewer than S elements are pushed and not yet
\* completely popped.
SpscDimensioningRule == Len(s_pushed) - Len(s_popped) < S

\* The producer thread calls push (the workload is bounded by MaxPushes).
SpscPush ==
    /\ Len(s_pushed) < MaxPushes
    /\ SpscDimensioningRule
    /\ spsc_push_tail

\* ------------------------------------------------------------ specifications

\* The traits of uint64_t, the element type of the correctness tests.
uint64_t == [is_move_assignable |-> TRUE, is_trivially_destructible |-> TRUE]

\* The MPSC queue just constructed, no thread inside an operation.
MpscConstructed ==
    /\ mpsc_queue
    /\ ppc = [p \in Producers |-> "idle"]
    /\ ptail = [p \in Producers |-> 0]
    /\ pitem = [p \in Producers |-> Zero]
    /\ pcount = [p \in Producers |-> 1]
    /\ aborted = FALSE
    /\ cpc = "idle"
    /\ chead = 0
    /\ item = Zero
    /\ ret = "none"
    /\ emptyRet = TRUE
    /\ tickets = <<>>
    /\ published = <<>>
    /\ returned = {}
    /\ popped = <<>>
    /\ popAvail = FALSE
    /\ popHeadPub = FALSE
    /\ popQuiet = FALSE
    /\ objects = [i \in 0 .. S - 1 |-> 0]
    /\ pfull = [p \in Producers |-> FALSE]

\* The SPSC queue just constructed, no thread inside an operation.
SpscConstructed ==
    /\ spsc_queue
    /\ spc = "idle"
    /\ stail = 0
    /\ sitem = Zero
    /\ s_aborted = FALSE
    /\ scpc = "idle"
    /\ sloaded = 0
    /\ shead = 0
    /\ s_item = Zero
    /\ s_ret = "none"
    /\ sizeRet = 0
    /\ s_pushed = <<>>
    /\ s_returned = 0
    /\ s_popped = <<>>
    /\ s_popAvail = FALSE
    /\ s_popQuiet = FALSE
    /\ owed = 0
    /\ failOwed = 0
    /\ s_objects = [i \in 0 .. S - 1 |-> 0]
    /\ s_held = {}

\* The threads of a program: the consumer is thread 0.
Threads == Producers \cup {0}

\* Memory as the threads find it when they start: the constructor's memset,
\* event 0, happens before every thread's first step and is the one store in
\* each is_used_'s modification order.  The consumer has not called empty().
Unobserved ==
    /\ events = 0
    /\ views = [t \in Threads |-> {0}]
    /\ msgs = [i \in 0 .. S - 1 |-> <<[val |-> 0, id |-> 0, rel |-> {}]>>]
    /\ coh = [t \in Threads |-> [i \in 0 .. S - 1 |-> 1]]
    /\ accesses = [i \in 0 .. S - 1 |-> {}]
    /\ raced = FALSE
    /\ predicted = "none"

\* The single-consumer, unguarded workloads: no second consumer exists, the
\* producer has not called size(), and the address of the ring is not tracked.
Unshared ==
    /\ c2pc = "idle"
    /\ c2head = 0
    /\ c2item = Zero
    /\ c2ret = "none"
    /\ overlapped = FALSE
    /\ sizeSeen = -1

Untouched ==
    /\ Unshared
    /\ header = "mpsc_queue.h"
    /\ alignof_T = 8
    /\ sizeof_T = 8
    /\ alloc_result = -1

\* Both queues just constructed.
Constructed ==
    /\ MpscConstructed
    /\ SpscConstructed
    /\ destroyed = FALSE
    /\ s_destroyed = FALSE
    /\ capacity = S
    /\ guard = "passed"
    /\ Unobserved
    /\ Untouched

Init == Constructed /\ T = uint64_t

\* The threads of the MPSC workload: NumProducers producers, one consumer.
Next ==
    \/ \E p \in Producers : Push(p) /\ UNCHANGED <<svars, lvars>>
    \/ \E p \in Producers : push_construct(p) /\ UNCHANGED <<svars, lvars>>
    \/ \E p \in Producers : push_assert(p) /\ UNCHANGED <<svars, lvars>>
    \/ \E p \in Producers : push_publish(p) /\ UNCHANGED <<svars, lvars>>
    \/ pop_reserve /\ UNCHANGED <<svars, lvars>>
    \/ pop_probe /\ UNCHANGED <<svars, lvars>>
    \/ pop_rollback /\ UNCHANGED <<svars, lvars>>
    \/ pop_transfer /\ UNCHANGED <<svars, lvars>>
    \/ pop_release /\ UNCHANGED <<svars, lvars>>
    \/ empty_load /\ UNCHANGED <<svars, lvars>>
    \/ empty_probe /\ UNCHANGED <<svars, lvars>>

Spec == Init /\ [][Next]_vars

\* The threads of the SPSC workload: one producer, one consumer.
NextSPSC ==
    \/ SpscPush /\ UNCHANGED <<mvars, lvars>>
    \/ spsc_push_construct /\ UNCHANGED <<mvars, lvars>>
    \/ spsc_push_count /\ UNCHANGED <<mvars, lvars>>
    \/ spsc_pop_load /\ UNCHANGED <<mvars, lvars>>
    \/ spsc_pop_head /\ UNCHANGED <<mvars, lvars>>
    \/ spsc_pop_transfer /\ UNCHANGED <<mvars, lvars>>
    \/ spsc_pop_count /\ UNCHANGED <<mvars, lvars>>
    \/ spsc_size /\ UNCHANGED <<mvars, lvars>>

SpecSPSC == Init /\ [][NextSPSC]_vars

\* A program that uses one of the two queues: the threads of the MPSC workload
\* on the MPSC queue, or the threads of the SPSC workload on the SPSC queue.
NextQueues ==
    \/ SpscConstructed /\ Next
    \/ MpscConstructed /\ NextSPSC

SpecQueues == Init /\ [][NextQueues]_vars

\* ------------------------------------------------- lifetime of the elements

\* Total number of pushes of a workload that ends with the queue's destruction.
LifePushes == 3

\* The element types the queues can be instantiated with, by the two traits
\* pop and the destructors branch on.
ElementTypes == [is_move_assignable : BOOLEAN, is_trivially_destructible : BOOLEAN]

\* The element of the tests pop_non_movable_with_non_trivial_destructor: copy
\* assignable only, with a destructor that counts.
non_movable_counting == [is_move_assignable |-> FALSE, is_trivially_destructible |-> FALSE]

InitLifecycle == Constructed /\ T \in ElementTypes

LifePush(p) ==
    /\ Len(tickets) < LifePushes
    /\ DimensioningRule
    /\ push_reserve(p)

SpscLifePush ==
    /\ Len(s_pushed) < LifePushes
    /\ SpscDimensioningRule
    /\ spsc_push_tail

\* The owner destroys a queue only when no thread is inside an operation.
MpscTeardown ==
    /\ \A p \in Producers : ppc[p] = "idle"
    /\ cpc = "idle"
    /\ mpsc_queue_destroy
    /\ UNCHANGED svars

SpscTeardown ==
    /\ spc = "idle"
    /\ scpc = "idle"
    /\ spsc_queue_destroy
    /\ UNCHANGED mvars

\* A program that constructs a queue of some element type, runs a workload on
\* it and destroys it.
NextLifecycle ==
    \/ \E p \in Producers : SpscConstructed /\ ~destroyed /\ LifePush(p) /\ UNCHANGED <<svars, lvars>>
    \/ \E p \in Producers : ~destroyed /\ push_construct(p) /\ UNCHANGED <<svars, lvars>>
    \/ \E p \in Producers : ~destroyed /\ push_assert(p) /\ UNCHANGED <<svars, lvars>>
    \/ \E p \in Producers : ~destroyed /\ push_publish(p) /\ UNCHANGED <<svars, lvars>>
    \/ SpscConstructed /\ ~destroyed /\ pop_reserve /\ UNCHANGED <<svars, lvars>>
    \/ ~destroyed /\ pop_probe /\ UNCHANGED <<svars, lvars>>
    \/ ~destroyed /\ pop_rollback /\ UNCHANGED <<svars, lvars>>
    \/ ~destroyed /\ pop_transfer /\ UNCHANGED <<svars, lvars>>
    \/ ~destroyed /\ pop_release /\ UNCHANGED <<svars, lvars>>
    \/ SpscConstructed /\ ~s_destroyed /\ MpscTeardown
    \/ MpscConstructed /\ ~destroyed /\ ~s_destroyed /\ SpscLifePush /\ UNCHANGED <<mvars, lvars>>
    \/ ~s_destroyed /\ spsc_push_construct /\ UNCHANGED <<mvars, lvars>>
    \/ ~s_destroyed /\ spsc_push_count /\ UNCHANGED <<mvars, lvars>>
    \/ MpscConstructed /\ ~destroyed /\ ~s_destroyed /\ spsc_pop_load /\ UNCHANGED <<mvars, lvars>>
    \/ ~s_destroyed /\ spsc_pop_head /\ UNCHANGED <<mvars, lvars>>
    \/ ~s_destroyed /\ spsc_pop_transfer /\ UNCHANGED <<mvars, lvars>>
    \/ ~s_destroyed /\ spsc_pop_count /\ UNCHANGED <<mvars, lvars>>
    \/ MpscConstructed /\ ~destroyed /\ SpscTeardown

SpecLifecycle == InitLifecycle /\ [][NextLifecycle]_vars

\* ---------------------------------------------------- an undimensioned workload

\* A push started whatever the number of elements in flight: the caller has
\* not dimensioned S for the workload.
PushAnyTime(p) ==
    /\ Len(tickets) < MaxPushes
    /\ push_reserve(p)

NextOverflow ==
    \/ \E p \in Producers : PushAnyTime(p) /\ UNCHANGED <<svars, lvars>>
    \/ \E p \in Producers : push_construct(p) /\ UNCHANGED <<svars, lvars>>
    \/ \E p \in Producers : push_assert(p) /\ UNCHANGED <<svars, lvars>>
    \/ \E p \in Producers : push_publish(p) /\ UNCHANGED <<svars, lvars>>
    \/ pop_reserve /\ UNCHANGED <<svars, lvars>>
    \/ pop_probe /\ UNCHANGED <<svars, lvars>>
    \/ pop_rollback /\ UNCHANGED <<svars, lvars>>
    \/ pop_transfer /\ UNCHANGED <<svars, lvars>>
    \/ pop_release /\ UNCHANGED <<svars, lvars>>
    \/ empty_load /\ UNCHANGED <<svars, lvars>>
    \/ empty_probe /\ UNCHANGED <<svars, lvars>>

SpecOverflow == Init /\ [][NextOverflow]_vars

\* ------------------------------------------------------ the constructor's guard

\* An instantiation of a queue template with any capacity of the word width,
\* before its constructor is compiled.
InitGuard ==
    /\ MpscConstructed
    /\ SpscConstructed
    /\ destroyed = FALSE
    /\ s_destroyed = FALSE
    /\ T = uint64_t
    /\ capacity \in 0 .. 2 ^ SizeTBits - 1
    /\ guard = "pending"
    /\ Unobserved
    /\ Untouched

\* static_assert(is_power_of_two(S)) in the constructor.
static_assert_is_power_of_two ==
    /\ guard = "pending"
    /\ guard' = IF is_power_of_two(capacity) THEN "passed" ELSE "failed"
    /\ UNCHANGED <<mvars, svars, T, destroyed, s_destroyed, capacity, ovars, gvars, xvars>>

NextGuard == static_assert_is_power_of_two

SpecGuard == InitGuard /\ [][NextGuard]_vars

\* ------------------------------------------- the pop_can_fail workloads, fairly

\* Total number of pushes of a workload whose consumer spins on pop.
LivePushes == 3

LivePush(p) ==
    /\ Len(tickets) < LivePushes
    /\ DimensioningRule
    /\ push_reserve(p)

SpscLivePush ==
    /\ Len(s_pushed) < LivePushes
    /\ SpscDimensioningRule
    /\ spsc_push_tail

\* A producer thread of the MPSC test: the steps of a push it has started.
ProducerRuns(p) ==
    \/ push_construct(p) /\ UNCHANGED <<svars, lvars>>
    \/ push_assert(p) /\ UNCHANGED <<svars, lvars>>
    \/ push_publish(p) /\ UNCHANGED <<svars, lvars>>

\* The consumer thread of the MPSC test: while (...) { if (queue.pop(value)) ... }
ConsumerRuns ==
    \/ SpscConstructed /\ pop_reserve /\ UNCHANGED <<svars, lvars>>
    \/ pop_probe /\ UNCHANGED <<svars, lvars>>
    \/ pop_rollback /\ UNCHANGED <<svars, lvars>>
    \/ pop_transfer /\ UNCHANGED <<svars, lvars>>
    \/ pop_release /\ UNCHANGED <<svars, lvars>>

\* The producer thread of the SPSC test inside a push it has started.
SpscProducerRuns ==
    \/ spsc_push_construct /\ UNCHANGED <<mvars, lvars>>
    \/ spsc_push_count /\ UNCHANGED <<mvars, lvars>>

\* The consumer thread of the SPSC test, spinning on pop.
SpscConsumerRuns ==
    \/ MpscConstructed /\ spsc_pop_load /\ UNCHANGED <<mvars, lvars>>
    \/ spsc_pop_head /\ UNCHANGED <<mvars, lvars>>
    \/ spsc_pop_transfer /\ UNCHANGED <<mvars, lvars>>
    \/ spsc_pop_count /\ UNCHANGED <<mvars, lvars>>

\* One of the two pop_can_fail tests: producers push, the consumer only pops.
NextDelivery ==
    \/ \E p \in Producers : SpscConstructed /\ LivePush(p) /\ UNCHANGED <<svars, lvars>>
    \/ \E p \in Producers : ProducerRuns(p)
    \/ ConsumerRuns
    \/ MpscConstructed /\ SpscLivePush /\ UNCHANGED <<mvars, lvars>>
    \/ SpscProducerRuns
    \/ SpscConsumerRuns

\* Every thread is an OS thread that keeps being scheduled: a push that has
\* started runs to its end, and the consumer keeps calling pop.  Nothing obliges
\* a producer to start another push.
Fairness ==
    /\ \A p \in Producers : WF_vars(ProducerRuns(p))
    /\ WF_vars(ConsumerRuns)
    /\ WF_vars(SpscProducerRuns)
    /\ WF_vars(SpscConsumerRuns)

SpecDelivery == Init /\ [][NextDelivery]_vars /\ Fairness

\* --------------------------------------------- a queue about to wrap its counters

\* The counters of an MPSC queue that has been through all rounds of the ring
\* but the last one before the counters wrap.
WrapStart == 2 ^ CounterBits - S

\* The value every push of those earlier rounds carried.
Leftover == make_value(1, 0, 0)

\* The MPSC queue after WrapStart pushes of Leftover and as many pops: empty
\* again, every slot freed with the moved-from value still in it, no thread
\* inside an operation.  The history starts here.
InitWrap ==
    /\ head_ = WrapStart
    /\ tail_ = WrapStart
    /\ elements_ = [i \in 0 .. S - 1 |-> [value_ |-> Leftover, is_used_ |-> 0]]
    /\ ppc = [p \in Producers |-> "idle"]
    /\ ptail = [p \in Producers |-> 0]
    /\ pitem = [p \in Producers |-> Zero]
    /\ pcount = [p \in Producers |-> 1]
    /\ aborted = FALSE
    /\ cpc = "idle"
    /\ chead = 0
    /\ item = Leftover
    /\ ret = "none"
    /\ emptyRet = TRUE
    /\ tickets = <<>>
    /\ published = <<>>
    /\ returned = {}
    /\ popped = <<>>
    /\ popAvail = FALSE
    /\ popHeadPub = FALSE
    /\ popQuiet = FALSE
    /\ objects = [i \in 0 .. S - 1 |-> WrapStart \div S]
    /\ pfull = [p \in Producers |-> FALSE]
    /\ SpscConstructed
    /\ destroyed = FALSE
    /\ s_destroyed = FALSE
    /\ capacity = S
    /\ guard = "passed"
    /\ T = uint64_t
    /\ Unobserved
    /\ Untouched

SpecWrap == InitWrap /\ [][Next]_vars

\* ------------------------------------- the MPSC queue under the C++ memory model

\* Total number of pushes of the workload run under the C++ memory model.
OrderPushes == 3

\* The stores to is_used_ of slot i that a load by thread t may read from: none
\* older than a store t has already read or made, or than a store that happens
\* before t's load (coherence).
Readable(t, i) ==
    {k \in coh[t][i] .. Len(msgs[i]) :
        \A j \in k + 1 .. Len(msgs[i]) : msgs[i][j].id \notin views[t]}

\* push: tail_.fetch_add(1, relaxed).  A read-modify-write reads the last value
\* in tail_'s modification order; relaxed, it synchronizes with nothing.
push_reserve_relaxed(p) ==
    /\ ~raced
    /\ Len(tickets) < OrderPushes
    /\ DimensioningRule
    /\ push_reserve(p)
    /\ UNCHANGED <<svars, lvars>>

\* push: the placement new, a plain write of value_.  It races with every
\* earlier access of that value_ that does not happen before it.
push_construct_plain(p) ==
    /\ ~raced
    /\ push_construct(p)
    /\ events' = events + 1
    /\ raced' = \E a \in accesses[ptail[p]] : a.id \notin views[p]
    /\ accesses' = [accesses EXCEPT ![ptail[p]] = {[id |-> events + 1, write |-> TRUE]}]
    /\ views' = [views EXCEPT ![p] = @ \cup {events + 1}]
    /\ UNCHANGED <<msgs, coh>>
    /\ UNCHANGED <<svars, tvars, gvars, xvars>>

\* push: assert(elements_[tail].is_used_.load(acquire) == 0).  The load reads
\* from any store coherence allows and acquires what that store released.
push_assert_acquire(p) ==
    /\ ~raced
    /\ ~aborted
    /\ ppc[p] = "assert"
    /\ \E k \in Readable(p, ptail[p]) :
           /\ IF msgs[ptail[p]][k].val = 0
              THEN /\ ppc' = [ppc EXCEPT ![p] = "publish"]
                   /\ UNCHANGED aborted
              ELSE /\ aborted' = TRUE
                   /\ UNCHANGED ppc
           /\ views' = [views EXCEPT ![p] = @ \cup msgs[ptail[p]][k].rel]
           /\ coh' = [coh EXCEPT ![p][ptail[p]] = k]
    /\ UNCHANGED <<head_, tail_, elements_, ptail, pitem, pcount, cpc, chead, item,
                   ret, emptyRet, tickets, published, returned, popped, popAvail,
                   popHeadPub, popQuiet, objects, pfull>>
    /\ UNCHANGED <<events, msgs, accesses, raced>>
    /\ UNCHANGED <<svars, tvars, gvars, xvars>>

\* push: elements_[tail].is_used_.store(1, release).  The store releases
\* everything that happens before it.
push_publish_release(p) ==
    /\ ~raced
    /\ push_publish(p)
    /\ events' = events + 1
    /\ msgs' = [msgs EXCEPT ![ptail[p]] =
                   Append(@, [val |-> 1, id |-> events + 1,
                              rel |-> views[p] \cup {events + 1}])]
    /\ views' = [views EXCEPT ![p] = @ \cup {events + 1}]
    /\ coh' = [coh EXCEPT ![p][ptail[p]] = Len(msgs[ptail[p]]) + 1]
    /\ UNCHANGED <<accesses, raced>>
    /\ UNCHANGED <<svars, tvars, gvars, xvars>>

\* pop: head_.fetch_add(1, relaxed), by the only thread that touches head_.
pop_reserve_relaxed ==
    /\ ~raced
    /\ pop_reserve
    /\ UNCHANGED <<svars, lvars>>

\* pop: if (elements_[head].is_used_.load(acquire) == 0)
pop_probe_acquire ==
    /\ ~raced
    /\ ~aborted
    /\ cpc = "probe"
    /\ \E k \in Readable(0, chead) :
           /\ cpc' = IF msgs[chead][k].val = 0 THEN "rollback" ELSE "transfer"
           /\ views' = [views EXCEPT ![0] = @ \cup msgs[chead][k].rel]
           /\ coh' = [coh EXCEPT ![0][chead] = k]
    /\ UNCHANGED <<head_, tail_, elements_, ppc, ptail, pitem, pcount, aborted,
                   chead, item, ret, emptyRet, tickets, published, returned, popped,
                   popAvail, popHeadPub, popQuiet, objects, pfull>>
    /\ UNCHANGED <<events, msgs, accesses, raced>>
    /\ UNCHANGED <<svars, tvars, gvars, xvars>>

\* pop: head_.fetch_sub(1, relaxed); return false;
pop_rollback_relaxed ==
    /\ ~raced
    /\ pop_rollback
    /\ UNCHANGED <<svars, lvars>>

\* pop: item = std::move(elements_[head].value_), a plain read of value_.  It
\* races with the last write of that value_ unless the write happens before it.
pop_transfer_plain ==
    /\ ~raced
    /\ pop_transfer
    /\ events' = events + 1
    /\ raced' = \E a \in accesses[chead] : a.write /\ a.id \notin views[0]
    /\ accesses' = [accesses EXCEPT ![chead] = @ \cup {[id |-> events + 1, write |-> FALSE]}]
    /\ views' = [views EXCEPT ![0] = @ \cup {events + 1}]
    /\ UNCHANGED <<msgs, coh>>
    /\ UNCHANGED <<svars, tvars, gvars, xvars>>

\* pop: elements_[head].is_used_.store(0, relaxed).  The store releases nothing.
pop_release_relaxed ==
    /\ ~raced
    /\ pop_release
    /\ events' = events + 1
    /\ msgs' = [msgs EXCEPT ![chead] =
                   Append(@, [val |-> 0, id |-> events + 1, rel |-> {}])]
    /\ views' = [views EXCEPT ![0] = @ \cup {events + 1}]
    /\ coh' = [coh EXCEPT ![0][chead] = Len(msgs[chead]) + 1]
    /\ UNCHANGED <<accesses, raced>>
    /\ UNCHANGED <<svars, tvars, gvars, xvars>>

\* The MPSC workload with nothing but the queue's own atomics between the
\* threads: the dimensioning rule holds in the order the steps are taken.
NextOrdering ==
    \/ \E p \in Producers : push_reserve_relaxed(p)
    \/ \E p \in Producers : push_construct_plain(p)
    \/ \E p \in Producers : push_assert_acquire(p)
    \/ \E p \in Producers : push_publish_release(p)
    \/ pop_reserve_relaxed
    \/ pop_probe_acquire
    \/ pop_rollback_relaxed
    \/ pop_transfer_plain
    \/ pop_release_relaxed

SpecOrdering == Init /\ [][NextOrdering]_vars

\* ---------------------------------------------- a consumer that asks empty() first

\* A push publishes: an empty() == true the consumer holds is void if the push
\* is the one of the oldest unpopped ticket and the next pop has yet to probe.
publish_after_empty(p) ==
    /\ push_publish(p)
    /\ predicted' = IF /\ predicted = "empty"
                       /\ cpc \in {"idle", "probe"}
                       /\ pitem[p] = tickets[Len(popped) + 1]
                    THEN "void"
                    ELSE predicted
    /\ UNCHANGED <<svars, tvars, ovars, xvars>>

\* empty() returns: the consumer holds its result until its next pop.
empty_then_pop ==
    /\ empty_probe
    /\ predicted' = IF emptyRet' THEN "empty" ELSE "nonempty"
    /\ UNCHANGED <<svars, tvars, ovars, xvars>>

\* The pop that followed has returned false.
pop_false_after_empty ==
    /\ pop_rollback
    /\ predicted' = "none"
    /\ UNCHANGED <<svars, tvars, ovars, xvars>>

\* The pop that followed has returned true.
pop_true_after_empty ==
    /\ pop_release
    /\ predicted' = "none"
    /\ UNCHANGED <<svars, tvars, ovars, xvars>>

\* The MPSC workload with the consumer's expectation recorded.
NextEmpty ==
    \/ \E p \in Producers : Push(p) /\ UNCHANGED <<svars, lvars>>
    \/ \E p \in Producers : push_construct(p) /\ UNCHANGED <<svars, lvars>>
    \/ \E p \in Producers : push_assert(p) /\ UNCHANGED <<svars, lvars>>
    \/ \E p \in Producers : publish_after_empty(p)
    \/ pop_reserve /\ UNCHANGED <<svars, lvars>>
    \/ pop_probe /\ UNCHANGED <<svars, lvars>>
    \/ pop_transfer /\ UNCHANGED <<svars, lvars>>
    \/ pop_false_after_empty
    \/ pop_true_after_empty
    \/ empty_load /\ UNCHANGED <<svars, lvars>>
    \/ empty_then_pop

SpecEmpty == Init /\ [][NextEmpty]_vars

\* ------------------------------------------------------------------ claims

\* Number of occurrences of v in the sequence s.
Count(s, v) == Cardinality({i \in 1 .. Len(s) : s[i] = v})

\* The sequences s and t hold the same multiset of values.
SameMultiset(s, t) == \A v \in Range(s) \cup Range(t) : Count(s, v) = Count(t, v)

\* The position of v in the sequence s (0 when absent).
IndexIn(s, v) == IF v \in Range(s) THEN CHOOSE i \in 1 .. Len(s) : s[i] = v ELSE 0

\* No push is in progress in the MPSC queue.
ProducersIdle == \A p \in Producers : ppc[p] = "idle"

\* The consumer's last pop found the MPSC queue empty after every push had
\* returned: it started with no push in progress, and none has started since.
Drained == ret = "false" /\ popQuiet

\* C1: MPSC conservation.  Once every push has returned and the consumer has
\* then popped until pop returned false, the multiset of the values returned by
\* successful pops equals the multiset of the values pushed.
C1_Conservation == Drained => SameMultiset(popped, tickets)

\* C1 witness: a drained queue after all MaxPushes pushes of both producers.
C1_Witness ==
    /\ Drained
    /\ Len(popped) = MaxPushes
    /\ \A p \in Producers : \E i \in 1 .. Len(popped) : thread_id_of(popped[i]) = p

\* C2: MPSC no duplication and no fabrication.  No value is returned by two
\* pops, and every value a pop returns (or has just transferred out of its
\* slot) was published by a push before the pop read the slot.
C2_NoDuplicationNoFabrication ==
    /\ \A i, j \in 1 .. Len(popped) : popped[i] = popped[j] => i = j
    /\ \A i \in 1 .. Len(popped) : popped[i] \in Range(published)
    /\ cpc = "release" => item \in Range(published) \ Range(popped)

\* C2 witness: the consumer has transferred a value out of a slot that is in
\* its second use, after earlier successful pops.
C2_Witness == cpc = "release" /\ Len(popped) >= S /\ item \in Range(published)

\* C3 as stated: whenever some push has returned and its element is not yet
\* popped, a pop that starts afterwards returns true.
C3_PopTrueWhenAnyPushReturned == ret = "false" => ~popAvail

\* What the code gives instead: whenever the push that drew the oldest not yet
\* popped tail ticket has returned, a pop that starts afterwards returns true
\* and delivers that element.
PopTrueWhenHeadPublished ==
    (popHeadPub /\ cpc \in {"idle", "empty"}) =>
        /\ ret = "true"
        /\ popped # <<>>
        /\ item = popped[Len(popped)]
        /\ item = tickets[Len(popped)]

\* Such a pop has returned true while another producer is inside push.
PopTrueWhenHeadPublishedWitness ==
    /\ popHeadPub /\ cpc = "idle" /\ ret = "true"
    /\ \E p \in Producers : ppc[p] # "idle"

\* C4 as stated: of two popped elements of different producers, the one
\* published first was popped first.
C4_PopOrderIsPublicationOrder ==
    \A i, j \in 1 .. Len(popped) :
        (i < j /\ thread_id_of(popped[i]) # thread_id_of(popped[j])) =>
            IndexIn(published, popped[i]) < IndexIn(published, popped[j])

\* C4 amended: of two elements of different producers, the one whose push drew
\* the earlier tail ticket is returned by the earlier successful pop,
\* irrespective of the order of their publications.
C4_PopOrderIsTicketOrder ==
    \A i, j \in 1 .. Len(tickets) :
        (/\ i < j
         /\ thread_id_of(tickets[i]) # thread_id_of(tickets[j])
         /\ tickets[j] \in Range(popped)) =>
            /\ tickets[i] \in Range(popped)
            /\ IndexIn(popped, tickets[i]) < IndexIn(popped, tickets[j])

\* C4 witness: two popped elements of different producers whose publication
\* order is the reverse of their ticket order.
C4_Witness ==
    \E i, j \in 1 .. Len(popped) :
        /\ i < j
        /\ thread_id_of(popped[i]) # thread_id_of(popped[j])
        /\ IndexIn(published, popped[j]) < IndexIn(published, popped[i])

\* C5: MPSC per-producer FIFO.  The elements one producer pushed are returned
\* by successful pops in the order in which that producer pushed them.
C5_PerProducerFIFO ==
    \A i, j \in 1 .. Len(popped) :
        (i < j /\ thread_id_of(popped[i]) = thread_id_of(popped[j])) =>
            element_id_of(popped[i]) < element_id_of(popped[j])

\* C5 witness: two elements of one producer popped with an element of another
\* producer popped in between.
C5_Witness ==
    \E i, j, k \in 1 .. Len(popped) :
        /\ i < k /\ k < j
        /\ thread_id_of(popped[i]) = thread_id_of(popped[j])
        /\ thread_id_of(popped[k]) # thread_id_of(popped[i])

\* C6: SPSC strict FIFO.  The sequence of values returned by successful pops
\* is at every moment a prefix of the sequence of values pushed.
C6_SpscFIFO == IsPrefix(s_popped, s_pushed)

\* C6 witness: three pops have succeeded, the ring has been reused, and the
\* producer is inside push.
C6_Witness == Len(s_popped) > S /\ spc # "idle"

\* The consumer's last SPSC pop returned false after the producer's last push
\* had returned, and no push has started since.
SpscDrained == s_ret = "false" /\ s_popQuiet

\* C7: SPSC conservation and final emptiness.  After the producer has finished
\* its pushes and the consumer has popped until pop returned false, every
\* pushed value has been returned exactly once and size() returns 0.
C7_SpscConservation == SpscDrained => (s_popped = s_pushed /\ size = 0)

\* C7 witness: the queue drained after all MaxPushes pushes.
C7_Witness == SpscDrained /\ Len(s_popped) = MaxPushes

\* C8: MPSC empty() in quiescent states.  An empty() that reads the flag while
\* no push and no pop is in progress returns true exactly when the number of
\* completed pushes equals the number of successful pops.
C8_EmptyWhenQuiescent ==
    [][(cpc = "empty" /\ cpc' = "idle" /\ ProducersIdle) =>
           (emptyRet' = (Cardinality(returned) = Len(popped)))]_vars

\* C8 witness: empty() has returned false in a quiescent state of a queue
\* whose counters have been round the ring.
C8_Witness ==
    /\ ProducersIdle /\ cpc = "idle"
    /\ emptyRet = FALSE
    /\ Len(popped) >= S
    /\ Cardinality(returned) > Len(popped)

\* C9: SPSC pop returns true exactly when an element is available.  It
\* returns false only if it loaded size_ = 0, true only if it loaded more, and
\* never false when a push had returned whose element was not yet popped.
C9_SpscPopResult ==
    /\ s_ret = "false" => (sloaded = 0 /\ ~s_popAvail)
    /\ s_ret = "true" => sloaded > 0

\* C9 witness: a pop that started with a returned, unpopped push in the ring
\* has returned true while the producer is inside its next push.
C9_Witness == s_ret = "true" /\ s_popAvail /\ sloaded > 0 /\ spc # "idle"

\* C10: SPSC size() as a promise.  When the consumer has read size() = k, none
\* of its next k pops returns false.
C10_SizePromise == failOwed = 0

\* C10 witness: size() returned S and both promised pops have succeeded, with
\* the producer pushing in between.
C10_Witness == sizeRet = S /\ owed = 0 /\ s_ret = "true" /\ Len(s_pushed) > S

\* C11: SPSC size bounds.  With pushes started only while fewer than S
\* elements are pushed and not yet popped, size_ stays within 0 .. S in every
\* reachable state and the assertion oldValue < S of push never fails.
C11_SizeBounds == size_ \in 0 .. S /\ ~s_aborted

\* C11 witness: the ring is full again after earlier pops, the consumer being
\* inside a pop.
C11_Witness == size_ = S /\ Len(s_popped) >= 1 /\ scpc # "idle"

\* C12 as stated: at all times size_ equals the number of constructed, not yet
\* transferred values held in the ring.
C12_SizeIsHeldAtAllTimes == size_ = Cardinality(s_held)

\* C12 amended: size_ equals the number of constructed, not yet transferred
\* values held in the ring, less one while the producer stands between its
\* placement new and its fetch_add, plus one while the consumer stands between
\* its transfer and its fetch_sub; so the two are equal whenever neither a push
\* nor a pop is in progress.
C12_SizeIsHeldUpToInFlight ==
    size_ = Cardinality(s_held)
            - (IF spc = "count" THEN 1 ELSE 0)
            + (IF scpc = "count" THEN 1 ELSE 0)

\* C12 witness: a quiescent ring holding S values after the ring was reused.
C12_Witness ==
    /\ spc = "idle" /\ scpc = "idle"
    /\ Cardinality(s_held) = S
    /\ Len(s_popped) >= 1

\* No step of this kind is a step of pop / of push.
NoPopStep == scpc' = scpc /\ s_popped' = s_popped /\ s_ret' = s_ret
NoPushStep == spc' = spc /\ s_pushed' = s_pushed

\* C13: SPSC size monotonicity.  Over steps that are not steps of pop the
\* value size() reads never decreases, over steps that are not steps of push it
\* never increases, and with no operation in progress size() is the number of
\* pushes minus the number of pops (n after n pushes, 0 after popping all n).
C13_SizeMonotone ==
    /\ [][NoPopStep => size' >= size]_vars
    /\ [][NoPushStep => size' <= size]_vars
    /\ []((spc = "idle" /\ scpc = "idle") => size = Len(s_pushed) - Len(s_popped))

\* C13 witness: size() is back at 0 with no operation in progress after S
\* pushes and S pops.
C13_Witness ==
    /\ spc = "idle" /\ scpc = "idle"
    /\ size = 0 /\ sizeRet = S
    /\ Len(s_popped) = S

\* The position of a thread inside its operation, counted in its own steps.
PushRank(pc) == CASE pc = "idle" -> 0 [] pc = "construct" -> 1
                  [] pc = "assert" -> 2 [] pc = "publish" -> 3
ConsumerRank(pc) == CASE pc = "idle" -> 0 [] pc = "probe" -> 1 [] pc = "empty" -> 1
                      [] pc = "rollback" -> 2 [] pc = "transfer" -> 2
                      [] pc = "release" -> 3
SpscPushRank(pc) == CASE pc = "idle" -> 0 [] pc = "construct" -> 1 [] pc = "count" -> 2
SpscPopRank(pc) == CASE pc = "idle" -> 0 [] pc = "take" -> 1 [] pc = "transfer" -> 2
                     [] pc = "count" -> 3

\* Whatever the other threads do or fail to do, the next step of a thread that
\* is inside an operation can be taken.
NextStepEnabled ==
    /\ \A p \in Producers :
        /\ ppc[p] = "construct" => ENABLED push_construct(p)
        /\ ppc[p] = "assert" => ENABLED push_assert(p)
        /\ ppc[p] = "publish" => ENABLED push_publish(p)
    /\ cpc = "probe" => ENABLED pop_probe
    /\ cpc = "rollback" => ENABLED pop_rollback
    /\ cpc = "transfer" => ENABLED pop_transfer
    /\ cpc = "release" => ENABLED pop_release
    /\ cpc = "empty" => ENABLED empty_probe
    /\ spc = "construct" => ENABLED spsc_push_construct
    /\ spc = "count" => ENABLED spsc_push_count
    /\ scpc = "take" => ENABLED spsc_pop_head
    /\ scpc = "transfer" => ENABLED spsc_pop_transfer
    /\ scpc = "count" => ENABLED spsc_pop_count

\* Every step of a thread moves it one position forward in its operation or
\* ends the operation: no step goes back, so push ends within 4 own steps, pop
\* within 4, empty within 2, SPSC push within 3, SPSC pop within 4, size in 1.
NoStepBack ==
    /\ \A p \in Producers :
        ppc'[p] # ppc[p] =>
            (ppc'[p] = "idle" \/ PushRank(ppc'[p]) = PushRank(ppc[p]) + 1)
    /\ cpc' # cpc => (cpc' = "idle" \/ ConsumerRank(cpc') = ConsumerRank(cpc) + 1)
    /\ spc' # spc => (spc' = "idle" \/ SpscPushRank(spc') = SpscPushRank(spc) + 1)
    /\ scpc' # scpc => (scpc' = "idle" \/ SpscPopRank(scpc') = SpscPopRank(scpc) + 1)

\* C14: wait-freedom.  Every call of push, pop, empty (MPSC) and push, pop,
\* size (SPSC) ends after a fixed number of the calling thread's own steps:
\* each of its steps is enabled whatever state the other threads are in, and
\* each takes it forward, with no loop and no retry.
C14_WaitFree == []NextStepEnabled /\ [][NoStepBack]_vars

\* C14 witness: the consumer is about to probe a slot whose producer has drawn
\* its ticket and stands still before publishing.
C14_Witness ==
    /\ cpc = "probe"
    /\ elements_[chead].is_used_ = 0
    /\ \E p \in Producers : ppc[p] # "idle" /\ ptail[p] = chead

\* A step of the consumer on the path of a pop that returns false.
FailedPopStep ==
    \/ cpc = "idle" /\ cpc' = "probe"
    \/ cpc = "probe" /\ cpc' = "rollback"
    \/ cpc = "rollback" /\ cpc' = "idle"

\* C15: an MPSC pop that returns false is free of side effects.  None of its
\* steps changes tail_, a slot's is_used_ or value_, or the out argument, and
\* when it returns head_ is back at the number of successful pops so far (its
\* value before the call), so tail_ - head_ is what it was.
C15_FailedPopNoEffect ==
    /\ [][FailedPopStep => (tail_' = tail_ /\ elements_' = elements_ /\ item' = item)]_vars
    /\ [][(cpc = "rollback" /\ cpc' = "idle") =>
            (ret' = "false" /\ head_' = Len(popped) % (2 ^ CounterBits))]_vars
    /\ [](cpc \in {"idle", "empty"} => head_ = Len(popped) % (2 ^ CounterBits))

\* C15 witness: a pop has returned false on a queue that had been filled and
\* emptied before, while a producer holds an unpublished ticket.
C15_Witness ==
    /\ ret = "false" /\ cpc = "idle"
    /\ Len(popped) >= S
    /\ head_ = Len(popped) % (2 ^ CounterBits)
    /\ \E p \in Producers : ppc[p] # "idle"

\* Slot i of the MPSC ring holds an element: constructed by a push and not yet
\* taken by a pop.
MpscSlotHolds(i) ==
    \/ elements_[i].is_used_ = 1
    \/ \E p \in Producers : ppc[p] \in {"assert", "publish"} /\ ptail[p] = i

\* C16: destructor balance for any element type.  After the queue has been
\* destroyed every constructor run on a slot has been matched by a destructor
\* run, for every element type whose destructor counts.
C16_DestructorBalance ==
    /\ (destroyed /\ ~T.is_trivially_destructible) =>
           \A i \in 0 .. S - 1 : objects[i] = 0
    /\ (s_destroyed /\ ~T.is_trivially_destructible) =>
           \A i \in 0 .. S - 1 : s_objects[i] = 0

\* C17: live objects of a copy-only element type with a counting destructor.
\* Whenever the consumer is not between its transfer and the end of pop (in
\* particular after every successful pop), each slot holds exactly one live
\* object if it holds an element and none otherwise, in both queues.
C17_LiveObjectsAreElements ==
    (T = non_movable_counting /\ ~destroyed /\ ~s_destroyed) =>
        /\ cpc # "release" =>
               \A i \in 0 .. S - 1 : objects[i] = IF MpscSlotHolds(i) THEN 1 ELSE 0
        /\ \A i \in 0 .. S - 1 : s_objects[i] = IF i \in s_held THEN 1 ELSE 0

\* C17 witness: of two elements pushed one has been popped; one live object is
\* left, in the slot that still holds an element.
C17_Witness ==
    /\ T = non_movable_counting
    /\ ret = "true" /\ cpc = "idle"
    /\ Len(tickets) = 2 /\ Len(popped) = 1
    /\ \E i \in 0 .. S - 1 : objects[i] = 1 /\ elements_[i].is_used_ = 1
    /\ \E i \in 0 .. S - 1 : objects[i] = 0

\* The slots of the MPSC ring that are published and not yet freed.
UsedSlots == {i \in 0 .. S - 1 : elements_[i].is_used_ = 1}

\* C19: the MPSC queue has capacity S.  While pushes started minus pops
\* completed never exceeds S, the assertion of push never fails, no push is
\* handed a slot that still holds an element, no two pushes in flight write the
\* same slot, and when all threads are idle the ring holds exactly the elements
\* pushed and not popped (S of them after S pushes and no pop).
C19_CapacityIsS ==
    /\ ~aborted
    /\ Len(tickets) - Len(popped) <= S
    /\ \A p \in Producers : ppc[p] # "idle" =>
           /\ ~pfull[p]
           /\ elements_[ptail[p]].is_used_ = 0
           /\ \A q \in Producers \ {p} : ppc[q] # "idle" => ptail[q] # ptail[p]
    /\ (ProducersIdle /\ cpc \in {"idle", "empty"}) =>
           Cardinality(UsedSlots) = Len(tickets) - Len(popped)

\* C19 witness: the ring has been filled, drained by one and filled again, so
\* a reused slot is among the S held elements.
C19_Witness ==
    /\ ProducersIdle
    /\ cpc = "idle"
    /\ Len(popped) >= 1
    /\ Cardinality(returned) = Len(popped) + S
    /\ UsedSlots = 0 .. S - 1

\* C20: overflow of the MPSC queue is trapped by the assertion.  A push whose
\* reserved slot was still used when it was reserved never gets past its
\* assertion to the publishing store.
C20_OverflowTrapped ==
    \A p \in Producers : pfull[p] => ppc[p] # "publish"

\* n is a power of two.
IsPowerOfTwo(n) == \E k \in 0 .. SizeTBits - 1 : n = 2 ^ k

\* C18: the power-of-two guard.  Once the static_assert of a constructor has
\* been evaluated for a capacity, it has passed exactly when the capacity is a
\* power of two.
C18_GuardIsPowerOfTwo ==
    guard # "pending" => (guard = "passed" <=> IsPowerOfTwo(capacity))

\* C21: eventual delivery.  Under fair scheduling of every producer and of a
\* consumer that keeps calling pop, the pops catch up with the pushes again and
\* again: every value whose push has started by some moment is, at a later
\* moment, among the values returned by successful pops, on both queues.
C21_EventualDelivery ==
    /\ []<>(popped = tickets)
    /\ []<>(s_popped = s_pushed)

\* C21 witness: the whole workload has been delivered, the last value after a
\* pop that found its slot reserved but not yet published.
C21_Witness ==
    /\ Len(popped) = LivePushes
    /\ Cardinality({thread_id_of(v) : v \in Range(popped)}) = NumProducers
    /\ ret = "true"
    /\ popHeadPub = FALSE

\* The slot of the push that drew the k-th tail ticket (k from 1).
SlotOfTicket(k) == (k - 1) % S

\* Producer p is at its publishing store on the slot its own ticket reserved.
PublishesOwnSlot(p) ==
    /\ ppc[p] = "publish"
    /\ pitem[p] \in Range(tickets)
    /\ ptail[p] = SlotOfTicket(IndexIn(tickets, pitem[p]))

\* The consumer is at its freeing store on the slot it claimed.
ReleasesClaimedSlot ==
    /\ cpc = "release"
    /\ chead = SlotOfTicket(Len(popped) + 1)

\* C22: the slot state machine.  is_used of a slot changes only from 0 to 1, by
\* the publishing store of the producer that reserved the slot, and from 1 to
\* 0, by the freeing store of the consumer that claimed it; a producer at its
\* publishing store finds 0 and the consumer at its freeing store finds 1.
C22_SlotStateMachine ==
    /\ [][\A i \in 0 .. S - 1 :
            elements_'[i].is_used_ # elements_[i].is_used_ =>
                \/ /\ elements_[i].is_used_ = 0 /\ elements_'[i].is_used_ = 1
                   /\ \E p \in Producers :
                          PublishesOwnSlot(p) /\ ptail[p] = i /\ ppc'[p] = "idle"
                \/ /\ elements_[i].is_used_ = 1 /\ elements_'[i].is_used_ = 0
                   /\ ReleasesClaimedSlot /\ chead = i /\ cpc' = "idle"]_vars
    /\ [](\A p \in Producers : ppc[p] = "publish" =>
              PublishesOwnSlot(p) /\ elements_[ptail[p]].is_used_ = 0)
    /\ [](cpc = "release" =>
              ReleasesClaimedSlot /\ elements_[chead].is_used_ = 1)

\* C22 witness: a slot is on its second round: the consumer frees a slot it has
\* freed before while a producer is about to publish into the other one again.
C22_Witness ==
    /\ cpc = "release"
    /\ Len(popped) >= S
    /\ \E p \in Producers : ppc[p] = "publish" /\ Len(published) >= S

\* C23: counter wrap is invisible.  On a queue whose counters wrap during the
\* run, tail and head are the unbounded counts of tickets and of pops reduced
\* modulo the counter width, every push and pop works on the slot its ticket
\* gives without gap or repeat, a failed pop leaves head where it was, the
\* assertion never fails, pops come in ticket order and a drained queue has
\* returned exactly what was pushed.
C23_WrapInvisible ==
    /\ ~aborted
    /\ tail_ = (WrapStart + Len(tickets)) % (2 ^ CounterBits)
    /\ cpc \in {"idle", "empty"} => head_ = (WrapStart + Len(popped)) % (2 ^ CounterBits)
    /\ \A p \in Producers : ppc[p] # "idle" =>
           /\ pitem[p] \in Range(tickets)
           /\ ptail[p] = SlotOfTicket(IndexIn(tickets, pitem[p]))
    /\ cpc \in {"probe", "rollback", "transfer", "release"} =>
           chead = SlotOfTicket(Len(popped) + 1)
    /\ IsPrefix(popped, tickets)
    /\ Drained => popped = tickets

\* C23 witness: a pop has failed with head at the largest counter value, on the
\* slot whose push has not published yet, after tail has wrapped.
C23_Witness ==
    /\ ret = "false"
    /\ cpc = "idle"
    /\ head_ = 2 ^ CounterBits - 1
    /\ tail_ < head_
    /\ Len(tickets) > S

\* (tail - head) modulo the counter width.
TailMinusHead == (tail_ - head_) % (2 ^ CounterBits)

\* C24 as stated: the counter range invariant.  (tail - head) modulo the
\* counter width is within [0, S] in every reachable state, the states in the
\* middle of a pop included.
C24_CounterRange == TailMinusHead \in 0 .. S

\* C24 amended: (tail - head) modulo the counter width is within [0, S] in every
\* reachable state except between the fetch_add and the fetch_sub of a pop on a
\* queue with no ticket outstanding, where head is one ahead of tail and the
\* difference is 2^w - 1.
C24_CounterRangeButFailingPop ==
    /\ (cpc \notin {"probe", "rollback"} \/ Len(tickets) > Len(popped)) =>
           TailMinusHead \in 0 .. S
    /\ (cpc \in {"probe", "rollback"} /\ Len(tickets) = Len(popped)) =>
           TailMinusHead = 2 ^ CounterBits - 1

\* C24 witness: the consumer is about to undo its reservation on a queue that
\* has been filled and emptied.
C24_Witness ==
    /\ cpc = "rollback"
    /\ Len(tickets) = Len(popped)
    /\ Len(popped) >= S
    /\ TailMinusHead = 2 ^ CounterBits - 1

\* C25: the memory orderings suffice.  No placement new of a push races with
\* the consumer's read of the slot's value, and no push has its assertion fail
\* on a stale is_used_ = 1.
C25_OrderingsSuffice == ~raced /\ ~aborted

\* The release store and the acquire load of is_used_ do order the consumer's
\* read after the construction it reads: the only race is a placement new into
\* a slot that has been used before.
FirstRoundOrdered == raced => \E p \in Producers : ppc[p] = "assert" /\ Len(tickets) > S

\* The oldest ticket not yet popped has been drawn but its push has not
\* published.
HeadUnpublished ==
    /\ Len(tickets) > Len(popped)
    /\ tickets[Len(popped) + 1] \notin Range(published)

SlotConsumed(i) ==
    /\ elements_[i].is_used_ = 0
    /\ ~(cpc \in {"transfer", "release"} /\ chead = i)

\* C27 as stated: the counter invariant suffices.  Whenever tail - head is
\* below S, so that a push keeps tail - head within S, the slot that push would
\* construct into has been completely consumed.
C27_CounterRoomSuffices ==
    TailMinusHead < S => SlotConsumed(BitAndMask(tail_, mod_value_))

\* C27 amended: whenever pushes started minus pops completed is below S, the
\* slot the next push would construct into has been completely consumed; every
\* push under that rule constructs into a consumed slot, every published
\* element stays in its slot until it is popped, and the pops return the
\* tickets in order, each once.
C27_CompletedPopsRoomSuffices ==
    /\ Len(tickets) - Len(popped) < S => SlotConsumed(BitAndMask(tail_, mod_value_))
    /\ \A p \in Producers : ppc[p] = "construct" => SlotConsumed(ptail[p])
    /\ \A k \in Len(popped) + 1 .. Len(tickets) :
           tickets[k] \in Range(published) =>
               elements_[SlotOfTicket(k)] = [value_ |-> tickets[k], is_used_ |-> 1]
    /\ popped = SubSeq(tickets, 1, Len(popped))
    /\ \A i, j \in 1 .. Len(popped) : i # j => popped[i] # popped[j]

\* C27 witness: a push is constructing into a slot that has held an element
\* before, while the consumer transfers the element of another slot out.
C27_Witness ==
    /\ \E p \in Producers :
           /\ ppc[p] = "construct"
           /\ IndexIn(tickets, pitem[p]) > S
           /\ cpc = "transfer"
           /\ chead # ptail[p]

\* C28 as stated: head is monotonically increasing.  Every step leaves head
\* as it is or moves it one up (to 0 from the largest counter value).
C28_HeadMonotone == [][head_' \in {head_, fetch_add(head_, 1)}]_vars

\* C28 amended: head moves one up at the start of every pop and one down only
\* at the end of a pop that found its slot empty, which undoes that pop's own
\* increment; between pops head is the number of successful pops modulo the
\* counter width, which never decreases.
C28_HeadMonotoneBetweenPops ==
    /\ [][\/ head_' \in {head_, fetch_add(head_, 1)}
          \/ /\ cpc = "rollback" /\ cpc' = "idle" /\ ret' = "false"
             /\ head_' = fetch_sub(head_, 1)
             /\ head_' = Len(popped) % (2 ^ CounterBits)]_vars
    /\ [][Len(popped') >= Len(popped)]_vars
    /\ [](cpc \in {"idle", "empty"} => head_ = Len(popped) % (2 ^ CounterBits))

\* C28 witness: the whole workload has been popped and a further pop has found
\* the queue empty and given its reservation back.
C28_Witness ==
    /\ ret = "false"
    /\ cpc = "idle"
    /\ Len(popped) = MaxPushes
    /\ head_ = tail_

\* C29: exclusive slot access.  No two producers are between reservation and
\* publication on the same slot; no producer inside push holds the slot the
\* consumer is transferring out or freeing; and the consumer transfers a
\* slot's value only when the producer of the oldest unpopped ticket has
\* constructed that value there and stored is_used_ = 1.
C29_ExclusiveSlotAccess ==
    /\ \A p, q \in Producers :
           (p # q /\ ppc[p] # "idle" /\ ppc[q] # "idle") => ptail[p] # ptail[q]
    /\ \A p \in Producers :
           (ppc[p] # "idle" /\ cpc \in {"transfer", "release"}) => ptail[p] # chead
    /\ cpc = "transfer" =>
           /\ Len(tickets) > Len(popped)
           /\ tickets[Len(popped) + 1] \in Range(published)
           /\ elements_[chead] = [value_ |-> tickets[Len(popped) + 1], is_used_ |-> 1]

\* C29 witness: every producer is inside a push, each on its own slot, on a
\* ring that has already been popped from.
C29_Witness ==
    /\ \A p \in Producers : ppc[p] # "idle"
    /\ Len(popped) >= 1
    /\ \E p \in Producers : ppc[p] = "construct"

\* C30: empty() predicts the consumer's next pop.  A pop that follows an
\* empty() == false returns true whatever the producers do; a pop that follows
\* an empty() == true returns false unless a push published into the head slot
\* before the pop probed it.
C30_EmptyPredictsPop ==
    [][(cpc \in {"rollback", "release"} /\ cpc' = "idle") =>
           /\ predicted = "nonempty" => ret' = "true"
           /\ predicted = "empty" => ret' = "false"]_vars

\* C30 witness: after empty() == true the pop has probed an empty head slot, a
\* push has published into it since, and the pop is about to return false.
C30_Witness ==
    /\ cpc = "rollback"
    /\ predicted = "empty"
    /\ elements_[chead].is_used_ = 1
    /\ Len(popped) >= 1

\* The oldest ticket not yet popped has been published.
HeadPublished ==
    /\ Len(tickets) > Len(popped)
    /\ tickets[Len(popped) + 1] \in Range(published)

\* C31: the un-reserve is safe against concurrent pushes.  Outside a pop head
\* points at the slot of the oldest unpopped ticket, so after a pop has
\* returned false the next pop probes the slot it probed; an element published
\* into that slot, at whatever point of the failing pop, stays there; and a
\* pop that starts once it is published returns it.
C31_UnreserveIsSafe ==
    /\ cpc \in {"idle", "empty"} =>
           BitAndMask(head_, mod_value_) = SlotOfTicket(Len(popped) + 1)
    /\ cpc \in {"probe", "rollback"} =>
           /\ chead = SlotOfTicket(Len(popped) + 1)
           /\ fetch_sub(head_, 1) = Len(popped) % (2 ^ CounterBits)
    /\ HeadPublished =>
           elements_[SlotOfTicket(Len(popped) + 1)] =
               [value_ |-> tickets[Len(popped) + 1], is_used_ |-> 1]
    /\ (popHeadPub /\ cpc = "idle") =>
           ret = "true" /\ popped # <<>> /\ popped[Len(popped)] = tickets[Len(popped)]

\* C31 witness: the pop has seen its slot empty and is about to give its
\* reservation back; meanwhile the push of that slot has published.
C31_Witness ==
    /\ cpc = "rollback"
    /\ HeadPublished
    /\ elements_[chead].value_ = tickets[Len(popped) + 1]
    /\ Len(popped) >= 1

\* ------------------------------------------- two threads popping the MPSC

\* Pushes of the two-consumer workload.
RacePushes == 2

\* What a step of the second consumer leaves alone besides the MPSC state.
others == <<svars, tvars, ovars, gvars, pvars, avars>>

\* pop called by a second thread: head_.fetch_add(1, relaxed) & mod_value_
other_pop_reserve ==
    /\ ~aborted
    /\ c2pc = "idle"
    /\ c2head' = BitAndMask(head_, mod_value_)
    /\ head_' = fetch_add(head_, 1)
    /\ c2pc' = "probe"
    /\ c2ret' = "none"
    /\ overlapped' = (overlapped \/ cpc # "idle")
    /\ UNCHANGED <<tail_, elements_, ppc, ptail, pitem, pcount, aborted,
                   cpc, chead, item, ret, emptyRet,
                   tickets, published, returned, popped, popAvail, popHeadPub,
                   popQuiet, objects, pfull>>
    /\ UNCHANGED <<c2item, others>>

\* second thread: if (elements_[head].is_used_.load(acquire) == 0)
other_pop_probe ==
    /\ ~aborted
    /\ c2pc = "probe"
    /\ c2pc' = IF elements_[c2head].is_used_ = 0 THEN "rollback" ELSE "transfer"
    /\ UNCHANGED <<mvars, c2head, c2item, c2ret, overlapped, others>>

\* second thread: head_.fetch_sub(1, relaxed); return false;
other_pop_rollback ==
    /\ ~aborted
    /\ c2pc = "rollback"
    /\ head_' = fetch_sub(head_, 1)
    /\ c2pc' = "idle"
    /\ c2ret' = "false"
    /\ UNCHANGED <<tail_, elements_, ppc, ptail, pitem, pcount, aborted,
                   cpc, chead, item, ret, emptyRet,
                   tickets, published, returned, popped, popAvail, popHeadPub,
                   popQuiet, objects, pfull>>
    /\ UNCHANGED <<c2head, c2item, overlapped, others>>

\* second thread: item = std::move(elements_[head].value_);
other_pop_transfer ==
    /\ ~aborted
    /\ c2pc = "transfer"
    /\ c2item' = elements_[c2head].value_
    /\ c2pc' = "release"
    /\ UNCHANGED <<mvars, c2head, c2ret, overlapped, others>>

\* second thread: elements_[head].is_used_.store(0, relaxed); return true;
other_pop_release ==
    /\ ~aborted
    /\ c2pc = "release"
    /\ elements_' = [elements_ EXCEPT ![c2head].is_used_ = 0]
    /\ c2pc' = "idle"
    /\ c2ret' = "true"
    /\ popped' = Append(popped, c2item)
    /\ UNCHANGED <<head_, tail_, ppc, ptail, pitem, pcount, aborted,
                   cpc, chead, item, ret, emptyRet,
                   tickets, published, returned, popAvail, popHeadPub,
                   popQuiet, objects, pfull>>
    /\ UNCHANGED <<c2head, c2item, overlapped, others>>

\* The first consumer starts a pop, possibly while the second is inside one.
racing_pop_reserve ==
    /\ pop_reserve
    /\ overlapped' = (overlapped \/ c2pc # "idle")
    /\ UNCHANGED <<c2pc, c2head, c2item, c2ret, others>>

\* A producer starts a push of the two-consumer workload.
RacePush(p) ==
    /\ Len(tickets) < RacePushes
    /\ DimensioningRule
    /\ push_reserve(p)

\* NumProducers producers and two threads that both call pop.
NextRace ==
    \/ \E p \in Producers : RacePush(p) /\ UNCHANGED <<svars, lvars>>
    \/ \E p \in Producers : push_construct(p) /\ UNCHANGED <<svars, lvars>>
    \/ \E p \in Producers : push_assert(p) /\ UNCHANGED <<svars, lvars>>
    \/ \E p \in Producers : push_publish(p) /\ UNCHANGED <<svars, lvars>>
    \/ racing_pop_reserve
    \/ pop_probe /\ UNCHANGED <<svars, lvars>>
    \/ pop_rollback /\ UNCHANGED <<svars, lvars>>
    \/ pop_transfer /\ UNCHANGED <<svars, lvars>>
    \/ pop_release /\ UNCHANGED <<svars, lvars>>
    \/ other_pop_reserve
    \/ other_pop_probe
    \/ other_pop_rollback
    \/ other_pop_transfer
    \/ other_pop_release

SpecRace == Init /\ [][NextRace]_vars

\* Nobody is inside an operation of the MPSC queue.
AllIdle ==
    /\ \A p \in Producers : ppc[p] = "idle"
    /\ cpc = "idle"
    /\ c2pc = "idle"

\* head_ points at a free slot while another slot holds a published element
\* that no pop has returned: with no further push every pop returns false.
Stranded ==
    /\ AllIdle
    /\ ~aborted
    /\ elements_[BitAndMask(head_, mod_value_)].is_used_ = 0
    /\ \E i \in 0 .. S - 1 :
           /\ elements_[i].is_used_ = 1
           /\ elements_[i].value_ \in Range(published)
           /\ elements_[i].value_ \notin Range(popped)

\* C32: MPSC two-consumer race.  With two threads calling pop, an element can
\* be stranded (head_ past a published, unconsumed slot, so that conservation
\* fails) -- the witness is such a state -- and this needs two pops to have
\* overlapped: as long as none did, nothing is stranded and the pops return
\* the tickets in ticket order.
C32_StrandedOnlyByOverlap ==
    ~overlapped => (~Stranded /\ (~aborted => IsPrefix(popped, tickets)))

\* C32 witness: a stranded element after both consumers' pops returned false,
\* the rollback of one having undone the reservation of the other.
C32_Witness ==
    /\ Stranded
    /\ overlapped
    /\ ret = "false"
    /\ ~SameMultiset(popped, tickets)
    /\ Len(tickets) = Cardinality(returned)

\* The steps of each operation, told by the part of the caller's state only
\* that operation writes.
MpscPushStep == ppc' # ppc \/ aborted' # aborted
MpscPushStarts == \E p \in Producers : ppc[p] = "idle" /\ ppc'[p] = "construct"
MpscConsumerStep == cpc' # cpc
SpscPushStepTaken == spc' # spc \/ s_aborted' # s_aborted
SpscPopStepTaken == scpc' # scpc \/ sloaded' # sloaded \/ s_ret' # s_ret
SpscSizeStepTaken == (sizeRet' # sizeRet \/ owed' # owed) /\ scpc' = scpc

\* C33: writer partition of the shared state.  MPSC: no step of push changes
\* head_, no step of pop or empty changes tail_, and a push changes tail_ once,
\* by +1, in its first step.  SPSC: no step of push changes head_, no step of
\* pop changes tail_, size() changes nothing of the queue, and size_ changes
\* only by +1 in push and by -1 in a pop that returns true.
C33_WriterPartition ==
    [][/\ MpscPushStep => head_' = head_
       /\ MpscConsumerStep => tail_' = tail_
       /\ MpscPushStarts => tail_' = fetch_add(tail_, 1)
       /\ (MpscPushStep /\ ~MpscPushStarts) => tail_' = tail_
       /\ tail_' # tail_ => MpscPushStarts
       /\ head_' # head_ => MpscConsumerStep
       /\ SpscPushStepTaken => s_head_' = s_head_
       /\ SpscPopStepTaken => s_tail_' = s_tail_
       /\ SpscSizeStepTaken =>
              UNCHANGED <<size_, s_head_, s_tail_, s_elements_>>
       /\ s_tail_' # s_tail_ => spc = "idle" /\ spc' = "construct"
       /\ s_head_' # s_head_ => scpc = "take" /\ scpc' = "transfer"
       /\ size_' # size_ =>
              \/ spc = "count" /\ scpc' = scpc /\ size_' = size_fetch_add(size_, 1)
              \/ /\ scpc = "count" /\ spc' = spc
                 /\ s_ret' = "true"
                 /\ size_' = size_fetch_sub(size_, 1)]_vars

\* C33 witness: the SPSC queue after two pushes, a pop that returned true and a
\* size() of the consumer: tail_, head_ and size_ have each been written.
C33_Witness ==
    /\ spc = "idle" /\ scpc = "idle"
    /\ Len(s_pushed) = 2 /\ Len(s_popped) = 1
    /\ s_ret = "true"
    /\ s_tail_ = BitAndMask(2, mod_value_)
    /\ s_head_ = BitAndMask(1, mod_value_)
    /\ size_ = 1 /\ sizeRet = 1

\* The slots of the elements that were pushed and never popped, by the history
\* of a quiescent queue: the pops have taken a prefix of what was pushed.
AbandonedSlots ==
    {SlotOfTicket(k) : k \in Len(popped) + 1 .. Len(tickets)}
SpscAbandonedSlots ==
    {SlotOfTicket(k) : k \in Len(s_popped) + 1 .. Len(s_pushed)}

\* Destructor runs of a teardown on slot i.
DestructorRuns(i) == objects[i] - objects'[i]
SpscDestructorRuns(i) == s_objects[i] - s_objects'[i]

\* C34: teardown destroys exactly the abandoned elements.  The destructor of
\* a quiescent queue runs the destructor of value_ (where T has one to run)
\* once on every slot whose element was pushed and never popped and on no
\* other slot; these are the slots with is_used_ = 1 (MPSC) and the size_
\* slots from head_ on (SPSC), and each still holds the value pushed into it.
C34_TeardownDestroysAbandoned ==
    [][/\ (~destroyed /\ destroyed') =>
              /\ AbandonedSlots = UsedSlots
              /\ Cardinality(AbandonedSlots) = Len(tickets) - Len(popped)
              /\ \A k \in Len(popped) + 1 .. Len(tickets) :
                     elements_[SlotOfTicket(k)].value_ = tickets[k]
              /\ \A i \in 0 .. S - 1 :
                     DestructorRuns(i) =
                         IF ~T.is_trivially_destructible /\ i \in AbandonedSlots
                         THEN 1 ELSE 0
       /\ (~s_destroyed /\ s_destroyed') =>
              /\ SpscAbandonedSlots =
                     {BitAndMask(s_head_ + i, mod_value_) : i \in 0 .. size_ - 1}
              /\ Cardinality(SpscAbandonedSlots) = size_
              /\ size_ = Len(s_pushed) - Len(s_popped)
              /\ \A k \in Len(s_popped) + 1 .. Len(s_pushed) :
                     s_elements_[SlotOfTicket(k)] = s_pushed[k]
              /\ \A i \in 0 .. S - 1 :
                     SpscDestructorRuns(i) =
                         IF ~T.is_trivially_destructible /\ i \in SpscAbandonedSlots
                         THEN 1 ELSE 0]_vars

\* C34 witness: an MPSC queue of elements with a counting destructor destroyed
\* after three pushes and two pops: slot 0 holds the abandoned third element and
\* had its destructor run, slot 1 was popped and was left alone.
C34_Witness ==
    /\ destroyed
    /\ T = non_movable_counting
    /\ Len(tickets) = 3 /\ Len(popped) = 2
    /\ elements_[SlotOfTicket(3)].is_used_ = 1
    /\ elements_[SlotOfTicket(2)].is_used_ = 0
    /\ \A i \in 0 .. S - 1 : objects[i] = 0

\* ------------------------------------------ both queues, not dimensioned

\* The SPSC producer pushes whatever size() is.
SpscPushAnyTime ==
    /\ Len(s_pushed) < MaxPushes
    /\ spsc_push_tail

NextSpscOverflow ==
    \/ SpscPushAnyTime /\ UNCHANGED <<mvars, lvars>>
    \/ spsc_push_construct /\ UNCHANGED <<mvars, lvars>>
    \/ spsc_push_count /\ UNCHANGED <<mvars, lvars>>
    \/ spsc_pop_load /\ UNCHANGED <<mvars, lvars>>
    \/ spsc_pop_head /\ UNCHANGED <<mvars, lvars>>
    \/ spsc_pop_transfer /\ UNCHANGED <<mvars, lvars>>
    \/ spsc_pop_count /\ UNCHANGED <<mvars, lvars>>
    \/ spsc_size /\ UNCHANGED <<mvars, lvars>>

\* The MPSC producers push whatever is in flight; the consumer pops.
NextMpscOverflow ==
    \/ \E p \in Producers : PushAnyTime(p) /\ UNCHANGED <<svars, lvars>>
    \/ \E p \in Producers : push_construct(p) /\ UNCHANGED <<svars, lvars>>
    \/ \E p \in Producers : push_assert(p) /\ UNCHANGED <<svars, lvars>>
    \/ \E p \in Producers : push_publish(p) /\ UNCHANGED <<svars, lvars>>
    \/ pop_reserve /\ UNCHANGED <<svars, lvars>>
    \/ pop_probe /\ UNCHANGED <<svars, lvars>>
    \/ pop_rollback /\ UNCHANGED <<svars, lvars>>
    \/ pop_transfer /\ UNCHANGED <<svars, lvars>>
    \/ pop_release /\ UNCHANGED <<svars, lvars>>

\* A program that overfills one of the two queues.
NextOverflowQueues ==
    \/ SpscConstructed /\ NextMpscOverflow
    \/ MpscConstructed /\ NextSpscOverflow

SpecOverflowQueues == Init /\ [][NextOverflowQueues]_vars

\* The assertion of producer p's push has fired.
Fires(p) ==
    /\ aborted
    /\ ppc[p] = "assert"
    /\ elements_[ptail[p]].is_used_ = 1

\* The other tickets that were handed the slot of producer p's push.
InSlot(p) ==
    {j \in 1 .. Len(tickets) : tickets[j] # pitem[p] /\ SlotOfTicket(j) = ptail[p]}

\* A published element that no pop has taken and no slot holds any more.
Lost(v) ==
    /\ v \in Range(published)
    /\ v \notin Range(popped)
    /\ ~(cpc = "release" /\ item = v)
    /\ \A i \in 0 .. S - 1 : elements_[i].value_ # v
SpscLost(v) ==
    /\ v \notin Range(s_popped)
    /\ ~(scpc = "count" /\ s_item = v)
    /\ \A i \in 0 .. S - 1 : s_elements_[i] # v

\* The element the SPSC push in progress found in its slot.
SpscPrevious == s_pushed[Len(s_pushed) - S]

\* C35 as stated: whenever the assertion of a push fires, an unconsumed
\* element that was stored in its slot has been overwritten.
C35_FiringMeansLoss ==
    /\ \A p \in Producers :
           Fires(p) => \E j \in InSlot(p) : Lost(tickets[j])
    /\ s_aborted => (Len(s_pushed) > S /\ SpscLost(SpscPrevious))

\* C35 amended: push writes the slot before it evaluates its assertion (the
\* only way to the assertion is the constructing step; the SPSC assertion is
\* evaluated on the size_ it has just incremented), so when the assertion
\* fires the write has happened.  Then either an unconsumed element of that
\* slot is lost, or the consumer had already transferred the slot's element
\* out and had not yet finished its pop, or (MPSC) another push in flight on
\* the same slot has written over the new element.
C35_WriteBeforeAssertion ==
    /\ [][/\ \A p \in Producers :
                 (ppc[p] # "assert" /\ ppc'[p] = "assert") =>
                     /\ ppc[p] = "construct"
                     /\ elements_'[ptail[p]].value_ = pitem[p]
          /\ (spc # "count" /\ spc' = "count") =>
                 /\ spc = "construct"
                 /\ s_elements_'[stail] = sitem
          /\ (~s_aborted /\ s_aborted') =>
                 /\ spc = "count"
                 /\ size_ >= S
                 /\ size_' = size_fetch_add(size_, 1)]_vars
    /\ [](\A p \in Producers :
              Fires(p) =>
                  \/ \E j \in InSlot(p) : Lost(tickets[j])
                  \/ cpc = "release" /\ chead = ptail[p]
                  \/ elements_[ptail[p]].value_ # pitem[p])
    /\ [](s_aborted =>
              /\ Len(s_pushed) > S
              /\ s_elements_[stail] = sitem
              /\ \/ SpscLost(SpscPrevious)
                 \/ scpc = "count" /\ s_item = SpscPrevious)

\* C35 witness: the MPSC assertion has fired on a slot that holds the new
\* element, and the published element that was there is lost.
C35_Witness ==
    \E p \in Producers :
        /\ Fires(p)
        /\ elements_[ptail[p]].value_ = pitem[p]
        /\ cpc = "idle"
        /\ \E j \in InSlot(p) : j < IndexIn(tickets, pitem[p]) /\ Lost(tickets[j])

\* ------------------------------------- the SPSC producer checking size()

\* What a step of the producer's size() leaves alone besides the SPSC state.
unsized == <<mvars, tvars, ovars, gvars, rvars, avars>>

\* The producer thread calls size() before a push: size_.load(acquire).
producer_size ==
    /\ ~s_aborted
    /\ spc = "idle"
    /\ sizeSeen' = size
    /\ UNCHANGED <<svars, unsized>>

\* The producer pushes only after its own size() returned less than S.
GuardedPush ==
    /\ Len(s_pushed) < MaxPushes
    /\ sizeSeen >= 0
    /\ sizeSeen < S
    /\ spsc_push_tail
    /\ sizeSeen' = -1
    /\ UNCHANGED unsized

NextGuarded ==
    \/ producer_size
    \/ GuardedPush
    \/ spsc_push_construct /\ UNCHANGED <<mvars, lvars>>
    \/ spsc_push_count /\ UNCHANGED <<mvars, lvars>>
    \/ spsc_pop_load /\ UNCHANGED <<mvars, lvars>>
    \/ spsc_pop_head /\ UNCHANGED <<mvars, lvars>>
    \/ spsc_pop_transfer /\ UNCHANGED <<mvars, lvars>>
    \/ spsc_pop_count /\ UNCHANGED <<mvars, lvars>>

SpecGuarded == Init /\ [][NextGuarded]_vars

\* C36: SPSC producer-side guard.  A push the producer starts after reading
\* size() < S never overflows, whatever the consumer does meanwhile: its
\* assertion holds, the slot it constructs into holds no element (the previous
\* one has been transferred out and its pop has returned) and the consumer is
\* not working on that slot, so that the pops return what was pushed, in order.
C36_GuardedPushNeverOverflows ==
    /\ [](~s_aborted)
    /\ [](spc = "count" => size_ < S)
    /\ [](IsPrefix(s_popped, s_pushed))
    /\ [][(spc = "construct" /\ spc' = "count") =>
              /\ stail \notin s_held
              /\ ~(scpc \in {"transfer", "count"} /\ shead = stail)
              /\ Len(s_pushed) > S => s_pushed[Len(s_pushed) - S] \in Range(s_popped)]_vars

\* C36 witness: the producer read size() = S - 1 while a pop was in progress,
\* and its push into a slot of the second round completes during another pop.
C36_Witness ==
    /\ spc = "count"
    /\ scpc \in {"take", "transfer", "count"}
    /\ Len(s_pushed) > S
    /\ size_ = S - 1
    /\ sizeSeen = -1

\* The n slots of the SPSC ring from slot first on, modulo S.
RingInterval(first, n) == {BitAndMask(first + i, mod_value_) : i \in 0 .. n - 1}

\* C37 as stated: at all times the slots holding a constructed value not yet
\* transferred out are those of [head_, head_ + size_) mod S.
C37_OwnershipAtAllTimes == s_held = RingInterval(s_head_, size_)

\* The first slot still holding a value: the consumer advances head_ before it
\* transfers the value of the old head slot out.
FirstHeld == IF scpc = "transfer" THEN shead ELSE s_head_

\* The number of values held: size_ lags behind the placement new of a push
\* and behind the transfer of a pop until their fetch_add / fetch_sub.
CountHeld ==
    size_ + (IF spc = "count" THEN 1 ELSE 0) - (IF scpc = "count" THEN 1 ELSE 0)

\* C37 amended: the slots holding a constructed value not yet transferred out
\* are always an interval of the ring; it is [head_, head_ + size_) mod S
\* whenever neither a push nor a pop is in progress, and in between it starts
\* at the old head while the consumer has advanced head_ and not yet
\* transferred, has one slot more than size_ once a push has constructed and
\* not yet counted, and one less once a pop has transferred and not yet counted.
C37_OwnershipUpToInFlight ==
    /\ s_held = RingInterval(FirstHeld, CountHeld)
    /\ CountHeld \in 0 .. S
    /\ (spc = "idle" /\ scpc = "idle") => s_held = RingInterval(s_head_, size_)

\* C37 witness: a full interval that wraps around the end of the ring while a
\* push has constructed and a pop has advanced head_.
C37_Witness ==
    /\ spc = "count"
    /\ scpc = "transfer"
    /\ shead = S - 1
    /\ s_head_ = 0
    /\ s_held = 0 .. S - 1
    /\ size_ = S - 1

\* ------------------------------------------- the allocation of the MPSC ring

\* Addresses are AddressBits wide; alignof(T) is a power of two up to
\* 2^MaxAlignBits and sizeof(T) a multiple of it, up to MaxSizeFactor times.
AddressBits == 9
MaxAlignBits == 7
MaxSizeFactor == 2

\* The two MPSC headers of the repository.
Headers == {"mpsc_queue.h", "WaitFreeMPSCQueue.h"}

cache_line_size_ == 64
sizeof_void_ptr == 8
\* std::atomic<uint_fast32_t> on the LP64 targets of the repository.
sizeof_is_used_ == 8

Max(a, b) == IF a >= b THEN a ELSE b

\* size rounded up to a multiple of `multiple`.
round_up_to_multiple_of(sz, multiple) ==
    IF sz % multiple = 0 THEN sz ELSE sz + (multiple - (sz % multiple))

\* struct element { alignas(cache_line_size_) T value_; std::atomic<uint_fast32_t> is_used_; }
alignof_element == Max(cache_line_size_, alignof_T)
sizeof_element ==
    round_up_to_multiple_of(
        round_up_to_multiple_of(sizeof_T, sizeof_is_used_) + sizeof_is_used_,
        alignof_element)

\* The alignment each constructor hands to aligned_alloc:
\* mpsc_queue.h: std::max(alignof(T), sizeof(void*)); WaitFreeMPSCQueue.h: alignof(element).
alignment ==
    IF header = "mpsc_queue.h" THEN Max(alignof_T, sizeof_void_ptr)
                               ELSE alignof_element

\* The size each constructor hands to aligned_alloc.
adjusted_size ==
    IF header = "mpsc_queue.h"
    THEN round_up_to_multiple_of(sizeof_element * S, alignment)
    ELSE sizeof_element * S

\* An instantiation of one of the MPSC headers with some element type, before
\* its constructor allocates the ring.
InitAlloc ==
    /\ MpscConstructed
    /\ SpscConstructed
    /\ destroyed = FALSE
    /\ s_destroyed = FALSE
    /\ T = uint64_t
    /\ capacity = S
    /\ guard = "passed"
    /\ Unobserved
    /\ Unshared
    /\ header \in Headers
    /\ alignof_T \in {2 ^ k : k \in 0 .. MaxAlignBits}
    /\ sizeof_T \in {alignof_T * f : f \in 1 .. MaxSizeFactor}
    /\ alloc_result = -1

\* aligned_alloc(alignment, adjusted_size): any block of the address space
\* that starts at a multiple of the requested alignment.
aligned_alloc ==
    /\ alloc_result = -1
    /\ \E a \in 0 .. 2 ^ AddressBits - 1 :
           /\ a % alignment = 0
           /\ a + adjusted_size <= 2 ^ AddressBits
           /\ alloc_result' = a
    /\ UNCHANGED <<mvars, svars, tvars, ovars, gvars, rvars, pvars,
                   header, alignof_T, sizeof_T>>

NextAlloc == aligned_alloc

SpecAlloc == InitAlloc /\ [][NextAlloc]_vars

\* &elements_[i]
AddressOfSlot(i) == alloc_result + i * sizeof_element

\* C38: MPSC slot alignment.  In both MPSC headers, for every element type and
\* capacity, every slot of the allocated ring starts at a multiple of the cache
\* line size (the allocator having been asked for at least alignof(element)).
C38_SlotsCacheLineAligned ==
    alloc_result # -1 =>
        \A i \in 0 .. S - 1 : AddressOfSlot(i) % cache_line_size_ = 0

\* The header WaitFreeMPSCQueue.h asks for alignof(element) and gets its slots
\* aligned; mpsc_queue.h asks for less whenever alignof(T) is below 64.
RequestSufficesInOlderHeaderOnly ==
    /\ header = "WaitFreeMPSCQueue.h" =>
           (alignment >= alignof_element /\ C38_SlotsCacheLineAligned)
    /\ (header = "mpsc_queue.h" /\ alignof_T < cache_line_size_) =>
           alignment < alignof_element
====
